---- MODULE Spec2Model ----
(***************************************************************************)
(* A model of the coordination core of openclaw-agency: the WebSocket      *)
(* relay pools and their endpoint handlers, the gateway registry, the      *)
(* message router and the reply path, the board sync endpoint, the         *)
(* proactivity event publisher,                                            *)
(* rule engine and suggestion lifecycle, and the auto-idle heartbeat       *)
(* governor.  Each subsystem has its own next-state relation and           *)
(* specification over the shared variables.                                *)
(***************************************************************************)
EXTENDS Integers, Sequences, FiniteSets, TLC

None == "none"
\* The value of dict.get(id) when the pool has no socket for id.
NoSocket == 0
\* A chat_session local that holds no row.
NoSession == [id |-> 0]

(***************************************************************************)
(* Bounds of the model.                                                    *)
(***************************************************************************)
MaxH5Sockets == 3
MaxGwSockets == 3
MaxRoutes == 2
MaxEvents == 2
MaxTicks == 2
MaxIdleRun == 7
MaxReplies == 2
MaxBoardClients == 2
MaxTasks == 2
MaxConditions == 2
MaxSuggestionIds == 1
MaxResolveCalls == 3
MaxChatSockets == 2
MaxChatMessages == 3
MaxHeartbeats == 2
MaxHeartbeatId == 1
MaxRegisterCalls == 2
MaxRelayTokens == 3
MaxClientInputs == 2
MaxLoopFrames == 2
MaxPairs == 2
MaxPipelineCalls == 2
MaxStages == 3
MaxRefreshCalls == 3
MaxRefreshTokens == 4
MaxSseStreams == 3
MaxSseSuggestions == 3
\* maxsize of a stream's queue (_SSE_QUEUE_MAX, 128 in the source).
SSE_QUEUE_MAX == 2

H5Sockets == 1..MaxH5Sockets
GwSockets == 1..MaxGwSockets
Routes == 1..MaxRoutes
Users == {"u1", "u2"}
Gateways == {"g1", "g2"}
Agents == {"a1", "a2"}
RouteUsers == {"u1"}
Events == 1..MaxEvents
Rules == {"r1", "r2"}
Boards == {"b1"}
EventTypes == {"cron.hourly", "cron.daily"}
Fields == {"stale_review_count"}
Instances == {"core1", "core2"}
GovAgents == {"lead1", "dev1"}
Replies == 1..MaxReplies
BoardClients == 1..MaxBoardClients
Tasks == 1..MaxTasks
SuggestionIds == 1..MaxSuggestionIds
ResolveCalls == 1..MaxResolveCalls
ChatSockets == 1..MaxChatSockets
Endpoints == {"h5", "gateway", "board"}
RegisterCalls == 1..MaxRegisterCalls
InputEndpoints == {"h5", "gateway_m4", "gateway"}
SseStreams == 1..MaxSseStreams
SseOrgs == {"org1", "org2"}
PipelineCalls == 1..MaxPipelineCalls
RefreshCalls == 1..MaxRefreshCalls
RefreshTokens == 1..MaxRefreshTokens

(***************************************************************************)
(* WebSocket close codes (a socket that is still open has code OPEN; PEER  *)
(* is a close or a transport failure coming from the remote end).          *)
(***************************************************************************)
OPEN == "open"
PEER == "peer"
CLOSE_REPLACED == "1012"
CLOSE_UNAUTH == "4001"
CLOSE_NOT_FOUND == "4004"
\* The close the server sends when the endpoint function raises.
CLOSE_INTERNAL == "1011"
\* First frames that do not complete the handshake: text that is not JSON
\* (or no frame at all), JSON that is not an object, an object of another
\* type, an auth message without a token, and a credential that is refused.
FailingFirstMessages ==
    {"not_json", "not_object", "wrong_type", "missing_token", "invalid_credential"}

(***************************************************************************)
(* Proactivity values.  Time is in seconds; the clock moves in steps of    *)
(* half the default cooldown.                                              *)
(***************************************************************************)
\* settings.proactivity_rule_cooldown_seconds
proactivity_rule_cooldown_seconds == 3600
ClockStep == proactivity_rule_cooldown_seconds \div 2
\* ProactiveRule.last_fired_at of a rule that has never fired (None).
NeverFired == -1
\* payload.get(field) of a field the payload does not have (None).
NoValue == -1
\* resolved_at IS NULL.
NotResolved == -1
\* The handler is routing no message.
NoMessage == 0
\* No request has an uncommitted UPDATE of the row.
NoCall == 0
\* relay_token of a registration call that has not generated one.
NoToken == 0
\* The default code of protocol.error_msg.
ERROR_CODE == 4000
\* session.get found no row for the id.
NoRow == [status |-> "none", resolved_at |-> NotResolved]
\* The consumer holds no event.
NoEvent == 0
\* A board sync frame that carries no single task.
NoTask == 0
Org == "o1"
ORG_CHANNEL_PREFIX == "mc:events"
CooldownChoices == {0, ClockStep}
PayloadValues == {1}
Payloads == [Fields -> PayloadValues \cup {NoValue}]
EmptyPayload == [f \in Fields |-> NoValue]

(***************************************************************************)
(* Governor values.  Durations are the strings the policy stores.          *)
(***************************************************************************)
DEFAULT_ACTIVE_EVERY == "5m"
DEFAULT_LADDER == <<"10m", "30m", "1h", "3h", "6h">>
DEFAULT_LEAD_CAP_EVERY == "1h"
\* ACTIVE_WINDOW, in minutes
ACTIVE_WINDOW == 60
\* last_chat_at of a board without chat (None).
NoChat == -1
\* Minutes since the board's last chat, as a run can find it.
ChatAges == {NoChat, ACTIVE_WINDOW, ACTIVE_WINDOW + 1}
\* A run emitted no patch for the agent; a gateway received none yet.
NoPatch == "no_patch"
\* The ladders and lead caps a board policy can hold; an empty ladder stands
\* for the default.
Ladders == {<<>>, <<"10m", "30m">>}
LeadCaps == {"1h", "6h"}
\* The rows of agents: lead1 is the board lead.
IsBoardLead == [a \in GovAgents |-> a = "lead1"]
GovGateway == [a \in GovAgents |-> IF a = "lead1" THEN "g1" ELSE "g2"]

VARIABLES
    \* H5 user chat endpoint and H5ConnectionManager
    h5Pc,            \* position of each socket's h5_chat_ws handler
    h5User,          \* the user the socket's token names
    h5Close,         \* close code of the socket, OPEN while open
    h5Old,           \* connect()'s local `old` while it awaits old.close()
    connections,     \* H5ConnectionManager._connections
    \* gateway relay endpoint, GatewayPool and the gateways table
    wsPc,            \* position of each socket's gateway_relay_ws_m4 handler
    wsGateway,       \* the gateway_id of the socket's URL
    wsClose,         \* close code of the socket, OPEN while open
    wsOld,           \* register_gateway()'s local `old` while it awaits
    wsSeen,          \* Gateway.status as read by the handler's cleanup
    wsOfflineWrites, \* committed status := "offline" writes of the cleanup
    wsCleanupFailed, \* the cleanup raised and was logged
    gwPool,          \* GatewayPool._connections
    gwStatus,        \* Gateway.status of each row
    wsInbox,         \* frames written to each gateway socket, in order
    \* message router and the tables it reads and writes
    assignments,     \* h5_user_agent_assignments rows, as (user, agent) pairs
    agentGateway,    \* Agent.gateway_id, None when the agent row is missing
    sessions,        \* h5_chat_sessions rows
    routeChannel,    \* messages published on ws:route:gateway:{gateway_id}
    rPc,             \* position of each route_h5_to_agent call
    rUser,           \* its h5_user_id
    rAgent,          \* its agent_id
    rSession,        \* its chat_session, once found or created
    rResult,         \* what the call returned
    \* event publisher, event bus and rule engine
    clock,           \* utcnow(), in seconds
    evPc,            \* position of each EventPublisher.publish call
    evType,          \* its event_type
    evBoard,         \* its board_id, None when not set
    evPayload,       \* its payload
    attempts,        \* redis.publish calls made, as (event, channel, ok)
    busQueue,        \* pmessages received by the subscribe_all consumer
    ruleEnabled,     \* ProactiveRule.is_enabled
    ruleCooldown,    \* ProactiveRule.cooldown_seconds
    ruleLastFired,   \* ProactiveRule.last_fired_at
    rePc,            \* position of the consumer inside handle_event
    reEvent,         \* the event handle_event is working on
    reChannel,       \* the channel its pmessage came from
    reRules,         \* the rules it loaded and has not gone through yet
    suggestions,     \* agent_suggestions rows
    \* auto-idle heartbeat governor
    lockHolder,      \* who holds the advisory lock, None when it is free
    gPc,             \* position of each instance's run_governor_once
    govPatches,      \* its patches_by_gateway, as (agent, gateway, every)
    agStep,          \* Agent.auto_heartbeat_step
    agOff,           \* Agent.auto_heartbeat_off
    agEvery,         \* Agent.heartbeat_config["every"], None without config
    agEnabled,       \* Agent.auto_heartbeat_enabled
    boardLadder,     \* Board.auto_heartbeat_governor_ladder
    boardLeadCap,    \* Board.auto_heartbeat_governor_lead_cap_every
    gwHeartbeat,     \* the heartbeat each gateway last received for an agent
    idleRun,         \* consecutive committed runs that found the agent idle
    govLastActive,   \* `active` of the agent in the last committed run
    govLastPatch,    \* the patch the last committed run emitted for it
    \* gateway replies routed back to H5 users, over two core instances
    nodeConnections, \* H5ConnectionManager._connections of each instance
    userFrames,      \* replies written to a user's socket, as (reply, instance)
    userRoute,       \* messages published on ws:route:h5_user:{h5_user_id}
    rpPc,            \* position of each route_gateway_to_h5_with_session call
    rpNode,          \* the instance whose gateway socket received the reply
    rpKey,           \* its session_key
    rpGateway,       \* the gateway the receiving relay connection authenticated as
    rpUser,          \* chat_session.h5_user_id, once resolved
    rpResult,        \* what the call returned
    \* board sync endpoint, its Redis listener and the tasks table
    bcPc,            \* position of each client's board_sync_ws handler
    bcClose,         \* close code of the client's socket, OPEN while open
    bcFrames,        \* frames written to the client's socket, in order
    bcSub,           \* state of the client's Redis listener task
    bcQueue,         \* messages its subscription received and has not read
    bcOwed,          \* messages published since the client's snapshot
    taskPc,          \* position of the mutation that creates each task
    taskCreatedAt,   \* Task.created_at
    \* one evaluation of a rule's conditions
    ecPc,            \* "loaded" before _evaluate_conditions, then "evaluated"
    ecConditions,    \* rule.conditions["rules"]
    ecPayload,       \* event.payload
    ecResult,        \* what _evaluate_conditions returned
    \* the lifecycle of agent_suggestions rows and the accept/dismiss calls
    sgRow,           \* the committed row of each suggestion id
    sgLock,          \* the call whose uncommitted UPDATE holds the row
    sgNow,           \* utcnow()
    rqPc,            \* position of each accept/dismiss request
    rqOp,            \* "accept" or "dismiss"
    rqTarget,        \* suggestion_id of the request
    rqSeen,          \* the row as the request's session loaded it
    rqNow,           \* now = utcnow() of the request
    rqResult,        \* how the request ended
    \* the chat lane of one (user, agent) pair
    chPc,            \* position of the handler of each of the user's sockets
    chOpen,          \* whether the socket is open
    chPool,          \* the socket the pool holds for the user
    chBuf,           \* chat frames sent on the socket and not yet received
    chMsg,           \* the message the handler is routing
    chSent,          \* how many messages the user has sent
    chWritten,       \* ids of the chat.send frames on the gateway socket
    \* heartbeats in the read loop of one socket of each endpoint
    hbIn,            \* ids of the heartbeat frames the loop received
    hbOut,           \* the frames it sent in reply
    \* the registry's row of one gateway and its registration calls
    rgHash,          \* Gateway.token: the hash of a relay token, or no row
    rgNext,          \* the relay token generate_relay_token returns next
    rgPc,            \* where each call of register_gateway is
    rgTok,           \* the relay token the call generated
    rgIssued,        \* the relay tokens returned to callers, in order
    rgAuth,          \* the last relay token check and its outcome
    \* one authenticated connection of each endpoint in its read loop
    inPc,            \* "loop", or "done" after the finally block
    inPool,          \* whether the connection is registered in its pool
    inRecv,          \* the malformed frames the loop received
    inSent,          \* the frames the loop sent in answer
    \* the suggestion streams of one process
    sseKey,          \* _sse_queues: the key of each registered stream
    sseOrg,          \* the organization of the member who opened the stream
    sseQueue,        \* the items waiting in the stream's queue
    sseCreated,      \* the suggestions SuggestionService.create returned
    \* the refresh tokens of one user
    rfRecord,        \* h5_refresh_tokens by token_hash: absent, valid, revoked
    rfNext,          \* the refresh token create_h5_refresh_token returns next
    rfPc,            \* where each call of refresh_tokens is
    rfTok,           \* the token the call was given
    rfOk,            \* how many calls returned a new pair for each token
    \* one pipeline run and the requests on it
    plStatus,        \* PipelineRun.status in the database
    plStage,         \* the position of current_stage_id in the pipeline
    plPc,            \* where each request is
    plOp,            \* advance or cancel
    plSeen,          \* the run as the request loaded it
    \* one round trip through the protocol codec
    cdPc,            \* idle, then which round trip, then done
    cdIn,            \* the text or the message object it starts from
    cdOut,           \* what the round trip returned
    \* the read loop of one connection of each endpoint and its handlers
    slPc,            \* receive (at receive_text) or handling (in a handler)
    slBuf,           \* the frames that arrived and are not yet read
    slTasks,         \* the handler tasks that are running
    slSent,          \* how many frames the client has sent
    slAcks           \* how many heartbeat acks the loop has sent

h5Vars == <<h5Pc, h5User, h5Close, h5Old, connections>>
gwVars == <<wsPc, wsGateway, wsClose, wsOld, wsSeen, wsOfflineWrites,
            wsCleanupFailed, gwPool, gwStatus, wsInbox>>
routerVars == <<assignments, agentGateway, sessions, routeChannel, rPc, rUser,
                rAgent, rSession, rResult>>
proVars == <<clock, evPc, evType, evBoard, evPayload, attempts, busQueue,
             ruleEnabled, ruleCooldown, ruleLastFired, rePc, reEvent, reChannel,
             reRules, suggestions>>
govVars == <<lockHolder, gPc, govPatches, agStep, agOff, agEvery, agEnabled,
             boardLadder,
             boardLeadCap, gwHeartbeat, idleRun, govLastActive, govLastPatch>>
replyVars == <<nodeConnections, userFrames, userRoute, rpPc, rpNode, rpKey,
               rpGateway,
               rpUser, rpResult>>
\* The variables of the subsystems modelled after the governor.
boardVars == <<bcPc, bcClose, bcFrames, bcSub, bcQueue, bcOwed, taskPc,
               taskCreatedAt>>
condVars == <<ecPc, ecConditions, ecPayload, ecResult>>
sgVars == <<sgRow, sgLock, sgNow, rqPc, rqOp, rqTarget, rqSeen, rqNow,
            rqResult>>
chatVars == <<chPc, chOpen, chPool, chBuf, chMsg, chSent, chWritten>>
hbVars == <<hbIn, hbOut>>
regVars == <<rgHash, rgNext, rgPc, rgTok, rgIssued, rgAuth>>
inVars == <<inPc, inPool, inRecv, inSent>>
sseVars == <<sseKey, sseOrg, sseQueue, sseCreated>>
rfVars == <<rfRecord, rfNext, rfPc, rfTok, rfOk>>
plVars == <<plStatus, plStage, plPc, plOp, plSeen>>
cdVars == <<cdPc, cdIn, cdOut>>
slVars == <<slPc, slBuf, slTasks, slSent, slAcks>>
extVars == <<replyVars, boardVars, condVars, sgVars, chatVars,
            hbVars,
            regVars,
            inVars,
            sseVars,
            rfVars,
            plVars,
            cdVars,
            slVars>>
vars == <<h5Vars, gwVars, routerVars, proVars, govVars, extVars>>

(***************************************************************************)
(* Initial state: no socket has connected, the pools are empty, and every  *)
(* gateway row has the model's default status.                             *)
(***************************************************************************)
InitH5 ==
    /\ h5Pc = [s \in H5Sockets |-> "idle"]
    /\ h5User = [s \in H5Sockets |-> None]
    /\ h5Close = [s \in H5Sockets |-> OPEN]
    /\ h5Old = [s \in H5Sockets |-> NoSocket]
    /\ connections = [u \in Users |-> NoSocket]

InitGw ==
    /\ wsPc = [s \in GwSockets |-> "idle"]
    /\ wsGateway = [s \in GwSockets |-> None]
    /\ wsClose = [s \in GwSockets |-> OPEN]
    /\ wsOld = [s \in GwSockets |-> NoSocket]
    /\ wsSeen = [s \in GwSockets |-> None]
    /\ wsOfflineWrites = [s \in GwSockets |-> 0]
    /\ wsCleanupFailed = [s \in GwSockets |-> FALSE]
    /\ gwPool = [g \in Gateways |-> NoSocket]
    /\ gwStatus = [g \in Gateways |-> "pending"]
    /\ wsInbox = [s \in GwSockets |-> <<>>]

\* No chat session exists yet and no call is running.  Every agent row that
\* exists names its gateway.
InitRouter ==
    /\ assignments = {}
    /\ sessions = {}
    /\ routeChannel = {}
    /\ rPc = [r \in Routes |-> "idle"]
    /\ rUser = [r \in Routes |-> None]
    /\ rAgent = [r \in Routes |-> None]
    /\ rSession = [r \in Routes |-> NoSession]
    /\ rResult = [r \in Routes |-> None]

\* No event has been published, the consumer waits for a message, and the
\* rules table holds two enabled rules that have never fired.
InitPro ==
    /\ clock = 0
    /\ evPc = [e \in Events |-> "new"]
    /\ evType = [e \in Events |-> None]
    /\ evBoard = [e \in Events |-> None]
    /\ evPayload = [e \in Events |-> EmptyPayload]
    /\ attempts = {}
    /\ busQueue = <<>>
    /\ ruleEnabled = [r \in Rules |-> TRUE]
    /\ ruleLastFired = [r \in Rules |-> NeverFired]
    /\ rePc = "idle"
    /\ reEvent = NoEvent
    /\ reChannel = <<>>
    /\ reRules = <<>>
    /\ suggestions = {}

\* Every agent row exists and names a gateway.
InitAgents == agentGateway = [a \in Agents |-> IF a = "a1" THEN "g1" ELSE "g2"]

\* Agent a1 is served by gateway g1; the row of the other agent may be
\* missing.
InitAgentsAny ==
    agentGateway \in {f \in [Agents -> Gateways \cup {None}] : f["a1"] = "g1"}

\* Every rule has the column default of cooldown_seconds.
InitCooldowns == ruleCooldown = [r \in Rules |-> proactivity_rule_cooldown_seconds]

\* A rule's cooldown_seconds is what its creator chose.
InitCooldownsAny == ruleCooldown \in [Rules -> CooldownChoices]

\* No governor run has started; every agent row has the column defaults.
InitGov ==
    /\ lockHolder = None
    /\ gPc = [i \in Instances |-> "idle"]
    /\ govPatches = [i \in Instances |-> {}]
    /\ agStep = [a \in GovAgents |-> 0]
    /\ agOff = [a \in GovAgents |-> FALSE]
    /\ agEvery = [a \in GovAgents |-> None]
    /\ gwHeartbeat = [a \in GovAgents |-> NoPatch]
    /\ idleRun = [a \in GovAgents |-> 0]
    /\ govLastActive = [a \in GovAgents |-> None]
    /\ govLastPatch = [a \in GovAgents |-> NoPatch]

\* The board has the column defaults of its governor policy, and the governor
\* manages the lead.
InitPolicy ==
    /\ agEnabled = [a \in GovAgents |-> IsBoardLead[a]]
    /\ boardLadder = DEFAULT_LADDER
    /\ boardLeadCap = DEFAULT_LEAD_CAP_EVERY

\* The governor manages both agents of a board with the default policy, or
\* one agent of a board whose policy is what its operator chose.
PolicyChoices ==
    {c \in [GovAgents -> BOOLEAN] \X Ladders \X LeadCaps :
        \/ Cardinality({a \in GovAgents : c[1][a]}) = 1
        \/ /\ \A a \in GovAgents : c[1][a]
           /\ c[2] = <<>>
           /\ c[3] = DEFAULT_LEAD_CAP_EVERY}

InitPolicyAny ==
    \E c \in PolicyChoices :
        /\ agEnabled = c[1]
        /\ boardLadder = c[2]
        /\ boardLeadCap = c[3]

\* No user is connected to any instance and no gateway has replied.
InitReply ==
    /\ nodeConnections = [n \in Instances |-> [u \in Users |-> "none"]]
    /\ userFrames = {}
    /\ userRoute = {}
    /\ rpPc = [k \in Replies |-> "idle"]
    /\ rpNode = [k \in Replies |-> None]
    /\ rpKey = [k \in Replies |-> <<>>]
    /\ rpGateway = [k \in Replies |-> None]
    /\ rpUser = [k \in Replies |-> None]
    /\ rpResult = [k \in Replies |-> None]

\* No board client has connected and the board has no task.
InitBoard ==
    /\ bcPc = [c \in BoardClients |-> "idle"]
    /\ bcClose = [c \in BoardClients |-> OPEN]
    /\ bcFrames = [c \in BoardClients |-> <<>>]
    /\ bcSub = [c \in BoardClients |-> "none"]
    /\ bcQueue = [c \in BoardClients |-> <<>>]
    /\ bcOwed = [c \in BoardClients |-> <<>>]
    /\ taskPc = [t \in Tasks |-> "new"]
    /\ taskCreatedAt = [t \in Tasks |-> 0]

\* No rule is being evaluated on its own.
InitCond ==
    /\ ecPc = "evaluated"
    /\ ecConditions = <<>>
    /\ ecPayload = EmptyPayload
    /\ ecResult = TRUE

\* No suggestion exists and no accept or dismiss request has arrived.
InitSuggestions ==
    /\ sgRow = [g \in SuggestionIds |-> NoRow]
    /\ sgLock = [g \in SuggestionIds |-> NoCall]
    /\ sgNow = 0
    /\ rqPc = [k \in ResolveCalls |-> "idle"]
    /\ rqOp = [k \in ResolveCalls |-> None]
    /\ rqTarget = [k \in ResolveCalls |-> 0]
    /\ rqSeen = [k \in ResolveCalls |-> NoRow]
    /\ rqNow = [k \in ResolveCalls |-> 0]
    /\ rqResult = [k \in ResolveCalls |-> None]

\* The user has no socket and has sent nothing.
InitChat ==
    /\ chPc = [s \in ChatSockets |-> "idle"]
    /\ chOpen = [s \in ChatSockets |-> FALSE]
    /\ chPool = NoSocket
    /\ chBuf = [s \in ChatSockets |-> <<>>]
    /\ chMsg = [s \in ChatSockets |-> NoMessage]
    /\ chSent = 0
    /\ chWritten = <<>>

\* No socket has received a heartbeat.
InitHeartbeat ==
    /\ hbIn = [e \in Endpoints |-> <<>>]
    /\ hbOut = [e \in Endpoints |-> <<>>]

\* No gateway has registered and no relay token was checked.
NoGateway == <<"none">>
NoCheck == [kind |-> "none", token |-> NoToken, ok |-> FALSE]
InitRegistry ==
    /\ rgHash = NoGateway
    /\ rgNext = 1
    /\ rgPc = [c \in RegisterCalls |-> "idle"]
    /\ rgTok = [c \in RegisterCalls |-> NoToken]
    /\ rgIssued = <<>>
    /\ rgAuth = NoCheck

\* Each connection has passed its handshake and is registered.
InitInput ==
    /\ inPc = [e \in InputEndpoints |-> "loop"]
    /\ inPool = [e \in InputEndpoints |-> TRUE]
    /\ inRecv = [e \in InputEndpoints |-> <<>>]
    /\ inSent = [e \in InputEndpoints |-> <<>>]

\* No stream is open and no suggestion was created.
NoKey == <<>>
InitSse ==
    /\ sseKey = [s \in SseStreams |-> NoKey]
    /\ sseOrg = [s \in SseStreams |-> None]
    /\ sseQueue = [s \in SseStreams |-> <<>>]
    /\ sseCreated = {}

\* The user has not logged in: no refresh token record.
InitRefresh ==
    /\ rfRecord = [h \in {<<"sha256", token>> : token \in RefreshTokens} |-> "absent"]
    /\ rfNext = 1
    /\ rfPc = [c \in RefreshCalls |-> "idle"]
    /\ rfTok = [c \in RefreshCalls |-> NoToken]
    /\ rfOk = [token \in RefreshTokens |-> 0]

\* No run has been started.
NoRun == "none"
InitPipeline ==
    /\ plStatus = NoRun
    /\ plStage = 0
    /\ plPc = [c \in PipelineCalls |-> "idle"]
    /\ plOp = [c \in PipelineCalls |-> "advance"]
    /\ plSeen = [c \in PipelineCalls |-> [status |-> NoRun, stage |-> 0]]

\* No round trip has started.
InitCodec ==
    /\ cdPc = "idle"
    /\ cdIn = <<>>
    /\ cdOut = <<>>

\* Each loop is at receive_text and nothing has arrived.
InitLoop ==
    /\ slPc = [e \in Endpoints |-> "receive"]
    /\ slBuf = [e \in Endpoints |-> <<>>]
    /\ slTasks = [e \in Endpoints |-> 0]
    /\ slSent = [e \in Endpoints |-> 0]
    /\ slAcks = [e \in Endpoints |-> 0]

InitExt ==
    InitReply /\ InitBoard /\ InitCond /\ InitSuggestions /\ InitChat
        /\ InitHeartbeat /\ InitRegistry /\ InitInput /\ InitSse /\ InitRefresh /\ InitPipeline /\ InitCodec /\ InitLoop

Init ==
    InitH5 /\ InitGw /\ InitRouter /\ InitAgents /\ InitPro /\ InitCooldowns
        /\ InitGov /\ InitPolicy /\ InitExt

(***************************************************************************)
(* H5 user chat endpoint                                                   *)
(***************************************************************************)

\* What no step of the H5 endpoint touches.
H5Frame == UNCHANGED <<gwVars, routerVars, proVars, govVars, extVars>>

\* websocket.accept(): a client opens a socket; its token will name user u.
H5Accept(s, u) ==
    /\ h5Pc[s] = "idle"
    /\ h5Pc' = [h5Pc EXCEPT ![s] = "handshake"]
    /\ h5User' = [h5User EXCEPT ![s] = u]
    /\ UNCHANGED <<h5Close, h5Old, connections>>
    /\ H5Frame

\* The remote end closes the socket or the transport fails.
H5PeerClose(s) ==
    /\ h5Pc[s] \in {"handshake", "authed", "closing", "loop"}
    /\ h5Close[s] = OPEN
    /\ h5Close' = [h5Close EXCEPT ![s] = PEER]
    /\ UNCHANGED <<h5Pc, h5User, h5Old, connections>>
    /\ H5Frame

\* How a handshake that fails on first frame `first` ends the socket: the
\* handler closes it with 4001, except that msg.get(...) on JSON that is not
\* an object raises AttributeError outside every try block, and the server
\* closes the socket of an endpoint that raised.
HandshakeCloseCode(first) ==
    IF first = "not_object" THEN CLOSE_INTERNAL ELSE CLOSE_UNAUTH

\* The handshake fails on first frame `first`: auth_error, close(4001), return
\* (or the handler raises).  Nothing is registered.
H5HandshakeFail(s, first) ==
    /\ h5Pc[s] = "handshake"
    /\ h5Pc' = [h5Pc EXCEPT ![s] = "rejected"]
    /\ h5Close' = [h5Close EXCEPT ![s] =
            IF @ = OPEN THEN HandshakeCloseCode(first) ELSE @]
    /\ UNCHANGED <<h5User, h5Old, connections>>
    /\ H5Frame

\* The token decodes: the handler sends auth_ok.
H5HandshakeOk(s) ==
    /\ h5Pc[s] = "handshake"
    /\ h5Close[s] = OPEN
    /\ h5Pc' = [h5Pc EXCEPT ![s] = "authed"]
    /\ UNCHANGED <<h5User, h5Close, h5Old, connections>>
    /\ H5Frame

\* Sending auth_ok raises on a dead socket: the handler ends before connect().
H5AuthOkFails(s) ==
    /\ h5Pc[s] = "authed"
    /\ h5Close[s] # OPEN
    /\ h5Pc' = [h5Pc EXCEPT ![s] = "done"]
    /\ UNCHANGED <<h5User, h5Close, h5Old, connections>>
    /\ H5Frame

\* old.close(code=1012): closes an open socket; on a closed one it raises and
\* the exception is swallowed.
CloseReplacedH5(close, old) ==
    [close EXCEPT ![old] = IF @ = OPEN THEN CLOSE_REPLACED ELSE @]

\* H5ConnectionManager.connect, run without a suspension: either there is no
\* old socket, or old.close() returns (or raises) without yielding.
H5Connect(s) ==
    /\ h5Pc[s] = "authed"
    /\ h5Close[s] = OPEN
    /\ LET old == connections[h5User[s]] IN
        /\ h5Close' = IF old = NoSocket THEN h5Close ELSE CloseReplacedH5(h5Close, old)
        /\ connections' = [connections EXCEPT ![h5User[s]] = s]
    /\ h5Pc' = [h5Pc EXCEPT ![s] = "loop"]
    /\ UNCHANGED <<h5User, h5Old>>
    /\ H5Frame

\* H5ConnectionManager.connect up to `await old.close(...)`, which suspends.
H5ConnectBegin(s) ==
    /\ h5Pc[s] = "authed"
    /\ h5Close[s] = OPEN
    /\ connections[h5User[s]] # NoSocket
    /\ h5Old' = [h5Old EXCEPT ![s] = connections[h5User[s]]]
    /\ h5Close' = CloseReplacedH5(h5Close, connections[h5User[s]])
    /\ h5Pc' = [h5Pc EXCEPT ![s] = "closing"]
    /\ UNCHANGED <<h5User, connections>>
    /\ H5Frame

\* H5ConnectionManager.connect after the await: self._connections[id] = websocket.
H5ConnectFinish(s) ==
    /\ h5Pc[s] = "closing"
    /\ connections' = [connections EXCEPT ![h5User[s]] = s]
    /\ h5Old' = [h5Old EXCEPT ![s] = NoSocket]
    /\ h5Pc' = [h5Pc EXCEPT ![s] = "loop"]
    /\ UNCHANGED <<h5User, h5Close>>
    /\ H5Frame

\* H5ConnectionManager.disconnect: pop the id, whatever socket it maps to.
H5Disconnect(conns, u) == [conns EXCEPT ![u] = NoSocket]

\* The read loop ends on a closed socket; the finally block runs disconnect().
H5LoopExit(s) ==
    /\ h5Pc[s] = "loop"
    /\ h5Close[s] # OPEN
    /\ connections' = H5Disconnect(connections, h5User[s])
    /\ h5Pc' = [h5Pc EXCEPT ![s] = "done"]
    /\ UNCHANGED <<h5User, h5Close, h5Old>>
    /\ H5Frame

NextH5 ==
    \/ \E s \in H5Sockets, u \in Users : H5Accept(s, u)
    \/ \E s \in H5Sockets : H5PeerClose(s)
    \/ \E s \in H5Sockets, first \in FailingFirstMessages : H5HandshakeFail(s, first)
    \/ \E s \in H5Sockets : H5HandshakeOk(s)
    \/ \E s \in H5Sockets : H5AuthOkFails(s)
    \/ \E s \in H5Sockets : H5Connect(s)
    \/ \E s \in H5Sockets : H5ConnectBegin(s)
    \/ \E s \in H5Sockets : H5ConnectFinish(s)
    \/ \E s \in H5Sockets : H5LoopExit(s)

SpecH5 == Init /\ [][NextH5]_vars

\* C39: after connection c2 has replaced connection c1 for the same user id,
\* c1's teardown never removes c2's entry: the pool's entry for a user is
\* emptied only by the teardown of the very socket it maps to.
C39_TeardownRemovesOnlyOwnEntry ==
    [][\A u \in Users :
        (connections[u] # NoSocket /\ connections'[u] = NoSocket)
        => (h5Pc[connections[u]] = "loop"
            /\ h5Pc'[connections[u]] = "done")]_vars

\* C1: registering a connection for an id that already has one replaces it
\* atomically: whenever the pool's entry for an id changes from one socket to
\* another, the socket that is replaced has been closed by then, for every
\* interleaving of concurrent connect calls on the same id.
C1_ReplacedSocketIsClosed ==
    [][\A u \in Users :
        (connections[u] # NoSocket /\ connections'[u] # NoSocket
            /\ connections'[u] # connections[u])
        => h5Close'[connections[u]] # OPEN]_vars

\* C11: a WebSocket handshake that fails (the first message is not an auth
\* message, the token is missing or empty, or the credential is invalid) is
\* closed with code 4001, the remote end not having closed it first, and its
\* socket is not in the user connection pool.
C11_FailedHandshakeClosed4001 ==
    \A s \in H5Sockets :
        h5Pc[s] = "rejected"
        => /\ h5Close[s] \in {CLOSE_UNAUTH, PEER}
           /\ \A u \in Users : connections[u] # s

(***************************************************************************)
(* Gateway relay endpoint (gateway_relay_ws_m4), GatewayPool and the       *)
(* gateway registry's writes of Gateway.status                             *)
(***************************************************************************)

\* What no step of the gateway endpoint touches.
GwFrame == UNCHANGED <<h5Vars, routerVars, proVars, govVars, extVars>>

\* websocket.accept(): a gateway opens a relay socket for gateway_id g.
GwAccept(s, g) ==
    /\ wsPc[s] = "idle"
    /\ wsPc' = [wsPc EXCEPT ![s] = "handshake"]
    /\ wsGateway' = [wsGateway EXCEPT ![s] = g]
    /\ UNCHANGED <<wsClose, wsOld, wsSeen, wsOfflineWrites, wsCleanupFailed,
                   gwPool, gwStatus,
                   wsInbox>>
    /\ GwFrame

\* The remote end closes the socket or the transport fails.
GwPeerClose(s) ==
    /\ wsPc[s] \in {"handshake", "authed", "closing", "loop"}
    /\ wsClose[s] = OPEN
    /\ wsClose' = [wsClose EXCEPT ![s] = PEER]
    /\ UNCHANGED <<wsPc, wsGateway, wsOld, wsSeen, wsOfflineWrites,
                   wsCleanupFailed, gwPool, gwStatus,
                   wsInbox>>
    /\ GwFrame

\* The handshake fails on first frame `first`: close(4001), return (or the
\* handler raises).  Nothing is registered and the row is not written.
GwHandshakeFail(s, first) ==
    /\ wsPc[s] = "handshake"
    /\ wsPc' = [wsPc EXCEPT ![s] = "rejected"]
    /\ wsClose' = [wsClose EXCEPT ![s] =
            IF @ = OPEN THEN HandshakeCloseCode(first) ELSE @]
    /\ UNCHANGED <<wsGateway, wsOld, wsSeen, wsOfflineWrites, wsCleanupFailed,
                   gwPool, gwStatus,
                   wsInbox>>
    /\ GwFrame

\* The relay token matches: the row is marked online and committed, and the
\* handler sends auth_ok.
GwHandshakeOk(s) ==
    /\ wsPc[s] = "handshake"
    /\ wsClose[s] = OPEN
    /\ gwStatus' = [gwStatus EXCEPT ![wsGateway[s]] = "online"]
    /\ wsPc' = [wsPc EXCEPT ![s] = "authed"]
    /\ UNCHANGED <<wsGateway, wsClose, wsOld, wsSeen, wsOfflineWrites,
                   wsCleanupFailed, gwPool,
                   wsInbox>>
    /\ GwFrame

\* Sending auth_ok raises on a dead socket: the handler ends before it
\* registers, outside the try/finally, so no cleanup runs.
GwAuthOkFails(s) ==
    /\ wsPc[s] = "authed"
    /\ wsClose[s] # OPEN
    /\ wsPc' = [wsPc EXCEPT ![s] = "done"]
    /\ UNCHANGED <<wsGateway, wsClose, wsOld, wsSeen, wsOfflineWrites,
                   wsCleanupFailed, gwPool, gwStatus,
                   wsInbox>>
    /\ GwFrame

\* old.close(code=1012) on the gateway pool's old socket.
CloseReplacedGw(close, old) ==
    [close EXCEPT ![old] = IF @ = OPEN THEN CLOSE_REPLACED ELSE @]

\* GatewayPool.register_gateway, run without a suspension.
GwRegister(s) ==
    /\ wsPc[s] = "authed"
    /\ wsClose[s] = OPEN
    /\ LET old == gwPool[wsGateway[s]] IN
        /\ wsClose' = IF old = NoSocket THEN wsClose ELSE CloseReplacedGw(wsClose, old)
        /\ gwPool' = [gwPool EXCEPT ![wsGateway[s]] = s]
    /\ wsPc' = [wsPc EXCEPT ![s] = "loop"]
    /\ UNCHANGED <<wsGateway, wsOld, wsSeen, wsOfflineWrites, wsCleanupFailed,
                   gwStatus,
                   wsInbox>>
    /\ GwFrame

\* GatewayPool.register_gateway up to `await old.close(...)`, which suspends.
GwRegisterBegin(s) ==
    /\ wsPc[s] = "authed"
    /\ wsClose[s] = OPEN
    /\ gwPool[wsGateway[s]] # NoSocket
    /\ wsOld' = [wsOld EXCEPT ![s] = gwPool[wsGateway[s]]]
    /\ wsClose' = CloseReplacedGw(wsClose, gwPool[wsGateway[s]])
    /\ wsPc' = [wsPc EXCEPT ![s] = "closing"]
    /\ UNCHANGED <<wsGateway, wsSeen, wsOfflineWrites, wsCleanupFailed,
                   gwPool, gwStatus,
                   wsInbox>>
    /\ GwFrame

\* GatewayPool.register_gateway after the await.
GwRegisterFinish(s) ==
    /\ wsPc[s] = "closing"
    /\ gwPool' = [gwPool EXCEPT ![wsGateway[s]] = s]
    /\ wsOld' = [wsOld EXCEPT ![s] = NoSocket]
    /\ wsPc' = [wsPc EXCEPT ![s] = "loop"]
    /\ UNCHANGED <<wsGateway, wsClose, wsSeen, wsOfflineWrites,
                   wsCleanupFailed, gwStatus,
                   wsInbox>>
    /\ GwFrame

UnregisterGateway_Keep(p, g) == p

\* GatewayPool.unregister_gateway: pop the id, whatever socket it maps to.
UnregisterGateway(p, g) == [p EXCEPT ![g] = NoSocket]

\* The read loop ends on a closed socket; the finally block unregisters the
\* gateway id and goes on to the database cleanup.
GwLoopExit(s) ==
    /\ wsPc[s] = "loop"
    /\ wsClose[s] # OPEN
    /\ gwPool' = UnregisterGateway(gwPool, wsGateway[s])
    /\ wsPc' = [wsPc EXCEPT ![s] = "cleanup"]
    /\ UNCHANGED <<wsGateway, wsClose, wsOld, wsSeen, wsOfflineWrites,
                   wsCleanupFailed, gwStatus,
                   wsInbox>>
    /\ GwFrame

\* The cleanup guard dropped: every cleanup writes offline.
CleanupMarksOffline_NoGuard(status) == TRUE

\* The cleanup's guard `gw is not None and gw.status == "online"`.
CleanupMarksOffline(status) == status = "online"

\* The cleanup reads the row (db.get); only an online row is written.
GwCleanupRead(s) ==
    /\ wsPc[s] = "cleanup"
    /\ wsSeen' = [wsSeen EXCEPT ![s] = gwStatus[wsGateway[s]]]
    /\ wsPc' = [wsPc EXCEPT ![s] =
            IF CleanupMarksOffline(gwStatus[wsGateway[s]]) THEN "cleanup_write" ELSE "done"]
    /\ UNCHANGED <<wsGateway, wsClose, wsOld, wsOfflineWrites, wsCleanupFailed,
                   gwPool, gwStatus,
                   wsInbox>>
    /\ GwFrame

\* The cleanup writes status = "offline" and commits.
GwCleanupWrite(s) ==
    /\ wsPc[s] = "cleanup_write"
    /\ gwStatus' = [gwStatus EXCEPT ![wsGateway[s]] = "offline"]
    /\ wsOfflineWrites' = [wsOfflineWrites EXCEPT ![s] = @ + 1]
    /\ wsPc' = [wsPc EXCEPT ![s] = "done"]
    /\ UNCHANGED <<wsGateway, wsClose, wsOld, wsSeen, wsCleanupFailed, gwPool,
                   wsInbox>>
    /\ GwFrame

\* The cleanup's session, read or commit raises: caught and logged
\* (gateway_relay_m4.cleanup_failed), the row keeps its status.
GwCleanupFails(s) ==
    /\ wsPc[s] \in {"cleanup", "cleanup_write"}
    /\ wsCleanupFailed' = [wsCleanupFailed EXCEPT ![s] = TRUE]
    /\ wsPc' = [wsPc EXCEPT ![s] = "done"]
    /\ UNCHANGED <<wsGateway, wsClose, wsOld, wsSeen, wsOfflineWrites,
                   gwPool, gwStatus,
                   wsInbox>>
    /\ GwFrame

\* gateway_registry.deregister_gateway (HTTP): a graceful shutdown marks the
\* row offline.
DeregisterGateway(g) ==
    /\ gwStatus[g] # "pending"
    /\ gwStatus' = [gwStatus EXCEPT ![g] = "offline"]
    /\ UNCHANGED <<wsPc, wsGateway, wsClose, wsOld, wsSeen, wsOfflineWrites,
                   wsCleanupFailed, gwPool,
                   wsInbox>>
    /\ GwFrame

\* gateway_registry.process_heartbeat (HTTP) with status "online".
ProcessHeartbeat(g) ==
    /\ gwStatus[g] # "pending"
    /\ gwStatus' = [gwStatus EXCEPT ![g] = "online"]
    /\ UNCHANGED <<wsPc, wsGateway, wsClose, wsOld, wsSeen, wsOfflineWrites,
                   wsCleanupFailed, gwPool,
                   wsInbox>>
    /\ GwFrame

NextGw ==
    \/ \E s \in GwSockets, g \in Gateways : GwAccept(s, g)
    \/ \E s \in GwSockets : GwPeerClose(s)
    \/ \E s \in GwSockets, first \in FailingFirstMessages : GwHandshakeFail(s, first)
    \/ \E s \in GwSockets : GwHandshakeOk(s)
    \/ \E s \in GwSockets : GwAuthOkFails(s)
    \/ \E s \in GwSockets : GwRegister(s)
    \/ \E s \in GwSockets : GwRegisterBegin(s)
    \/ \E s \in GwSockets : GwRegisterFinish(s)
    \/ \E s \in GwSockets : GwLoopExit(s)
    \/ \E s \in GwSockets : GwCleanupRead(s)
    \/ \E s \in GwSockets : GwCleanupWrite(s)
    \/ \E s \in GwSockets : GwCleanupFails(s)
    \/ \E g \in Gateways : DeregisterGateway(g)
    \/ \E g \in Gateways : ProcessHeartbeat(g)

SpecGw == Init /\ [][NextGw]_vars

\* C10 (as claimed): each disconnect of a gateway's relay WebSocket
\* transitions that gateway's row to status=offline exactly once (stated here
\* for the disconnects whose cleanup ran without a database failure).
C10_OfflineExactlyOnce ==
    \A s \in GwSockets :
        (wsPc[s] = "done" /\ wsSeen[s] # None /\ ~wsCleanupFailed[s])
        => wsOfflineWrites[s] = 1

\* C10 (amended): a disconnect writes status=offline at most once, and only
\* when its cleanup read the row as online; when the cleanup read the row as
\* online and did not fail it writes it exactly once, and when the row was
\* already offline, or the cleanup failed, it writes nothing.
C10_OfflineAtMostOnceWhenOnline ==
    \A s \in GwSockets :
        /\ wsOfflineWrites[s] <= 1
        /\ wsOfflineWrites[s] = 1 => wsSeen[s] = "online" /\ ~wsCleanupFailed[s]
        /\ (wsPc[s] = "done" /\ wsSeen[s] = "online" /\ ~wsCleanupFailed[s])
            => wsOfflineWrites[s] = 1
        /\ (wsPc[s] = "done" /\ wsSeen[s] \notin {None, "online"})
            => wsOfflineWrites[s] = 0

\* Witness for C10: one disconnect wrote the row offline and a later
\* disconnect of the same gateway found it already offline and wrote nothing.
C10_Witness ==
    \E s, t \in GwSockets :
        /\ s # t
        /\ wsPc[s] = "done" /\ wsOfflineWrites[s] = 1
        /\ wsPc[t] = "done" /\ wsSeen[t] = "offline" /\ wsOfflineWrites[t] = 0


\* C25: on every WebSocket endpoint a failed handshake makes the server send
\* an auth_error frame with the reason and then close the socket with 4001:
\* on the gateway relay endpoint, the last frame written to a socket that the
\* server closed with 4001 after a failed handshake is an auth_error frame.
C25_AuthErrorBeforeClose4001 ==
    \A s \in GwSockets :
        (wsPc[s] = "rejected" /\ wsClose[s] = CLOSE_UNAUTH)
        => /\ wsInbox[s] # <<>>
           /\ wsInbox[s][Len(wsInbox[s])].type = "auth_error"

(***************************************************************************)
(* Message router: route_h5_to_agent                                       *)
(***************************************************************************)

\* What no step of the router touches.
RouterFrame == UNCHANGED <<h5Vars, wsPc, wsGateway, wsOld, wsSeen,
                           wsOfflineWrites, wsCleanupFailed, gwStatus,
                           proVars, govVars, extVars>>

\* _build_session_key: f"h5:{h5_user_id}:{agent_id}".
BuildSessionKey(u, a) == <<"h5", u, a>>

\* The session lookup that forgets the agent_id filter.
ActiveSessionsFor_AnyAgent(u, a) ==
    {cs \in sessions : cs.h5_user_id = u /\ cs.status = "active"}

\* The rows _get_or_create_session selects: the active sessions of the pair.
ActiveSessionsFor(u, a) ==
    {cs \in sessions :
        cs.h5_user_id = u /\ cs.agent_id = a /\ cs.status = "active"}

\* The H5ChatSession row _get_or_create_session inserts.
NewSession(u, a, g) ==
    [id |-> Cardinality(sessions) + 1, h5_user_id |-> u, agent_id |-> a,
     gateway_id |-> g, session_key |-> BuildSessionKey(u, a),
     status |-> "active", touched |-> FALSE]

\* h5_user_service.assign_user_to_agent.
AssignUserToAgent(u, a) ==
    /\ <<u, a>> \notin assignments
    /\ assignments' = assignments \cup {<<u, a>>}
    /\ UNCHANGED <<agentGateway, sessions, routeChannel, rPc, rUser, rAgent,
                   rSession, rResult, wsClose, gwPool, wsInbox>>
    /\ RouterFrame

\* h5_user_service.unassign_user_from_agent.
UnassignUserFromAgent(u, a) ==
    /\ <<u, a>> \in assignments
    /\ assignments' = assignments \ {<<u, a>>}
    /\ UNCHANGED <<agentGateway, sessions, routeChannel, rPc, rUser, rAgent,
                   rSession, rResult, wsClose, gwPool, wsInbox>>
    /\ RouterFrame

\* The H5 read loop calls route_h5_to_agent(h5_user_id=u, agent_id=a).
RouteStart(r, u, a) ==
    /\ rPc[r] = "idle"
    /\ rPc' = [rPc EXCEPT ![r] = "assignment"]
    /\ rUser' = [rUser EXCEPT ![r] = u]
    /\ rAgent' = [rAgent EXCEPT ![r] = a]
    /\ UNCHANGED <<assignments, agentGateway, sessions, routeChannel, rSession,
                   rResult, wsClose, gwPool, wsInbox>>
    /\ RouterFrame

RouteGetAssignment_Unchecked(r) ==
    /\ rPc[r] = "assignment"
    /\ rPc' = [rPc EXCEPT ![r] = "session"]
    /\ UNCHANGED <<assignments, agentGateway, sessions, routeChannel, rUser,
                   rAgent, rSession, rResult, wsClose, gwPool, wsInbox>>
    /\ RouterFrame

\* Step 1, _get_assignment: no row, return False.
RouteGetAssignment(r) ==
    /\ rPc[r] = "assignment"
    /\ IF <<rUser[r], rAgent[r]>> \in assignments
       THEN /\ rPc' = [rPc EXCEPT ![r] = "session"]
            /\ UNCHANGED rResult
       ELSE /\ rPc' = [rPc EXCEPT ![r] = "done"]
            /\ rResult' = [rResult EXCEPT ![r] = "false"]
    /\ UNCHANGED <<assignments, agentGateway, sessions, routeChannel, rUser,
                   rAgent, rSession, wsClose, gwPool, wsInbox>>
    /\ RouterFrame

\* Step 2, _get_or_create_session: the select of an existing active session;
\* result.first() is any of the matching rows.
RouteFindSession(r) ==
    /\ rPc[r] = "session"
    /\ LET found == ActiveSessionsFor(rUser[r], rAgent[r]) IN
        IF found # {}
        THEN /\ \E cs \in found : rSession' = [rSession EXCEPT ![r] = cs]
             /\ rPc' = [rPc EXCEPT ![r] = "touch"]
        ELSE /\ rPc' = [rPc EXCEPT ![r] = "agent"]
             /\ UNCHANGED rSession
    /\ UNCHANGED <<assignments, agentGateway, sessions, routeChannel, rUser,
                   rAgent, rResult, wsClose, gwPool, wsInbox>>
    /\ RouterFrame

\* Step 2, _get_or_create_session: session.get(Agent); a missing agent or
\* gateway gives None, and route_h5_to_agent returns False.  Otherwise the new
\* row is added and committed.
RouteCreateSession(r) ==
    /\ rPc[r] = "agent"
    /\ IF agentGateway[rAgent[r]] = None
       THEN /\ rPc' = [rPc EXCEPT ![r] = "done"]
            /\ rResult' = [rResult EXCEPT ![r] = "false"]
            /\ UNCHANGED <<sessions, rSession>>
       ELSE LET new == NewSession(rUser[r], rAgent[r], agentGateway[rAgent[r]]) IN
            /\ sessions' = sessions \cup {new}
            /\ rSession' = [rSession EXCEPT ![r] = new]
            /\ rPc' = [rPc EXCEPT ![r] = "touch"]
            /\ UNCHANGED rResult
    /\ UNCHANGED <<assignments, agentGateway, routeChannel, rUser, rAgent,
                   wsClose, gwPool, wsInbox>>
    /\ RouterFrame

\* Step 3: last_message_at and updated_at are set and committed.
RouteTouch(r) ==
    /\ rPc[r] = "touch"
    /\ LET cs == rSession[r] IN
        /\ sessions' = {IF x.id = cs.id THEN [x EXCEPT !.touched = TRUE] ELSE x :
                            x \in sessions}
        /\ rSession' = [rSession EXCEPT ![r] = [cs EXCEPT !.touched = TRUE]]
    /\ rPc' = [rPc EXCEPT ![r] = "forward"]
    /\ UNCHANGED <<assignments, agentGateway, routeChannel, rUser, rAgent,
                   rResult, wsClose, gwPool, wsInbox>>
    /\ RouterFrame

\* The chat.send frame of step 4.
GatewayMessage(r) ==
    [type |-> "chat.send", id |-> r, session_key |-> rSession[r].session_key,
     h5_user_id |-> rUser[r], agent_id |-> rAgent[r]]

\* Step 4: gateway_pool.send_to_gateway(chat_session.gateway_id, message).
\* No socket: False.  The write succeeds: True, and the call returns True.
\* The write raises: the id is unregistered, False.
RouteForward(r) ==
    /\ rPc[r] = "forward"
    /\ LET g == rSession[r].gateway_id
           ws == gwPool[g] IN
        IF ws = NoSocket
        THEN /\ rPc' = [rPc EXCEPT ![r] = "publish"]
             /\ UNCHANGED <<rResult, gwPool, wsInbox>>
        ELSE IF wsClose[ws] = OPEN
        THEN /\ wsInbox' = [wsInbox EXCEPT ![ws] = Append(@, GatewayMessage(r))]
             /\ rPc' = [rPc EXCEPT ![r] = "done"]
             /\ rResult' = [rResult EXCEPT ![r] = "true"]
             /\ UNCHANGED gwPool
        ELSE /\ gwPool' = UnregisterGateway(gwPool, g)
             /\ rPc' = [rPc EXCEPT ![r] = "publish"]
             /\ UNCHANGED <<rResult, wsInbox>>
    /\ UNCHANGED <<assignments, agentGateway, sessions, routeChannel, rUser,
                   rAgent, rSession, wsClose>>
    /\ RouterFrame

\* _make_channel: f"ws:route:{target_type}:{target_id}".
MakeChannel(target_type, target_id) == <<"ws:route", target_type, target_id>>

\* Step 4, on a local miss: redis_bridge.publish("gateway", gateway_id, message)
\* succeeds, and the call returns True.
RoutePublish(r) ==
    /\ rPc[r] = "publish"
    /\ routeChannel' = routeChannel \cup
            {<<MakeChannel("gateway", rSession[r].gateway_id),
               GatewayMessage(r)>>}
    /\ rPc' = [rPc EXCEPT ![r] = "done"]
    /\ rResult' = [rResult EXCEPT ![r] = "true"]
    /\ UNCHANGED <<assignments, agentGateway, sessions, rUser, rAgent,
                   rSession, wsClose, gwPool, wsInbox>>
    /\ RouterFrame

RoutePublishFails_ReportsTrue(r) ==
    /\ rPc[r] = "publish"
    /\ rPc' = [rPc EXCEPT ![r] = "done"]
    /\ rResult' = [rResult EXCEPT ![r] = "true"]
    /\ UNCHANGED <<assignments, agentGateway, sessions, routeChannel, rUser,
                   rAgent, rSession, wsClose, gwPool, wsInbox>>
    /\ RouterFrame

\* Redis is unavailable or the publish raises: the call returns False.
RoutePublishFails(r) ==
    /\ rPc[r] = "publish"
    /\ rPc' = [rPc EXCEPT ![r] = "done"]
    /\ rResult' = [rResult EXCEPT ![r] = "false"]
    /\ UNCHANGED <<assignments, agentGateway, sessions, routeChannel, rUser,
                   rAgent, rSession, wsClose, gwPool, wsInbox>>
    /\ RouterFrame

\* The remote end of a registered gateway socket goes away.
RouterGatewayDrops(s) ==
    /\ wsPc[s] = "loop"
    /\ wsClose[s] = OPEN
    /\ wsClose' = [wsClose EXCEPT ![s] = PEER]
    /\ UNCHANGED <<routerVars, gwPool, wsInbox>>
    /\ RouterFrame

NextRouter ==
    \/ \E u \in RouteUsers, a \in Agents : AssignUserToAgent(u, a)
    \/ \E u \in RouteUsers, a \in Agents : UnassignUserFromAgent(u, a)
    \/ \E r \in Routes, u \in RouteUsers, a \in Agents : RouteStart(r, u, a)
    \/ \E r \in Routes : RouteGetAssignment(r)
    \/ \E r \in Routes : RouteFindSession(r)
    \/ \E r \in Routes : RouteCreateSession(r)
    \/ \E r \in Routes : RouteTouch(r)
    \/ \E r \in Routes : RouteForward(r)
    \/ \E r \in Routes : RoutePublish(r)
    \/ \E r \in Routes : RoutePublishFails(r)
    \/ \E s \in GwSockets : RouterGatewayDrops(s)

\* The router runs beside a gateway pool in which socket 1 is, or is not, the
\* registered relay connection of gateway g1 (a state of the gateway endpoint
\* after GwAccept, GwHandshakeOk and GwRegister).
InitGwRegistered ==
    /\ wsPc = [s \in GwSockets |-> IF s = 1 THEN "loop" ELSE "idle"]
    /\ wsGateway = [s \in GwSockets |-> IF s = 1 THEN "g1" ELSE None]
    /\ wsClose = [s \in GwSockets |-> OPEN]
    /\ wsOld = [s \in GwSockets |-> NoSocket]
    /\ wsSeen = [s \in GwSockets |-> None]
    /\ wsOfflineWrites = [s \in GwSockets |-> 0]
    /\ wsCleanupFailed = [s \in GwSockets |-> FALSE]
    /\ gwPool = [g \in Gateways |-> IF g = "g1" THEN 1 ELSE NoSocket]
    /\ gwStatus = [g \in Gateways |-> IF g = "g1" THEN "online" ELSE "pending"]
    /\ wsInbox = [s \in GwSockets |-> <<>>]

InitR ==
    InitH5 /\ InitGwRegistered /\ InitRouter /\ InitAgentsAny /\ InitPro
        /\ InitCooldowns /\ InitGov /\ InitPolicy /\ InitExt
SpecRouter == InitR /\ [][NextRouter]_vars

\* C2: for every user-to-agent message for which route_h5_to_agent returns
\* success, an active ChatSession with session_key h5:{user}:{agent} exists at
\* that moment whose gateway_id equals the agent's gateway_id.
C2_RoutedImpliesSession ==
    \A r \in Routes :
        (rPc[r] = "done" /\ rResult[r] = "true")
        => \E cs \in sessions :
            /\ cs.status = "active"
            /\ cs.session_key = BuildSessionKey(rUser[r], rAgent[r])
            /\ cs.gateway_id = agentGateway[rAgent[r]]

\* Witness for C2: two calls returned success for different agents of one
\* user, one delivered on the local gateway socket and one through pub/sub.
C2_Witness ==
    \E r, q \in Routes :
        /\ rPc[r] = "done" /\ rResult[r] = "true"
        /\ rPc[q] = "done" /\ rResult[q] = "true"
        /\ rUser[r] = rUser[q] /\ rAgent[r] # rAgent[q]
        /\ \E s \in GwSockets : Len(wsInbox[s]) > 0
        /\ routeChannel # {}

\* C38: at most one active ChatSession exists per (user, agent) pair, and no
\* two active sessions have the same session_key, whatever the overlap of
\* the route_h5_to_agent calls of the pair.
C38_OneActiveSessionPerPair ==
    \A x, y \in sessions :
        (x.status = "active" /\ y.status = "active"
            /\ (x.session_key = y.session_key
                \/ (x.h5_user_id = y.h5_user_id /\ x.agent_id = y.agent_id)))
        => x.id = y.id

\* C21: route_h5_to_agent for a (user, agent) pair that has no assignment row
\* when the call looks it up returns false, creates or updates no chat
\* session, and forwards nothing to a gateway socket or a pub/sub route: the
\* step that finds no row ends the call with false and leaves the sessions,
\* the gateway sockets and the route channel as they were, and a call that
\* ended without a session has no message of its own anywhere.
C21_NoAssignmentRoutesNothing ==
    [][\A r \in Routes :
           /\ (/\ rPc[r] = "assignment"
               /\ <<rUser[r], rAgent[r]>> \notin assignments
               /\ rPc'[r] # "assignment")
              => /\ rPc'[r] = "done" /\ rResult'[r] = "false"
                 /\ sessions' = sessions
                 /\ wsInbox' = wsInbox
                 /\ routeChannel' = routeChannel
           /\ (rPc'[r] = "done" /\ rSession'[r] = NoSession)
              => /\ rResult'[r] = "false"
                 /\ \A s \in GwSockets : \A i \in 1..Len(wsInbox'[s]) :
                        wsInbox'[s][i].id # r
                 /\ \A m \in routeChannel' : m[2].id # r]_vars

\* A call for an unassigned pair ended with false while the agent has a
\* gateway and that gateway's socket is registered and open.
C21_Witness ==
    \E r \in Routes :
        /\ rPc[r] = "done" /\ rResult[r] = "false" /\ rSession[r] = NoSession
        /\ <<rUser[r], rAgent[r]>> \notin assignments
        /\ agentGateway[rAgent[r]] # None
        /\ gwPool[agentGateway[rAgent[r]]] # NoSocket
        /\ wsClose[gwPool[agentGateway[rAgent[r]]]] = OPEN

\* C22: route_h5_to_agent returns success if and only if a delivery path
\* accepted the message: a finished call returned true exactly when its
\* message was written to a gateway socket or published, it is published only
\* when the local pool did not take it, on the route ws:route:gateway:{id} of
\* the session's gateway, and the call returned false when both failed.
C22_SuccessIffDelivered ==
    \A r \in Routes :
        rPc[r] = "done" =>
            LET local == \E s \in GwSockets : \E i \in 1..Len(wsInbox[s]) :
                             wsInbox[s][i].id = r
                published == {m \in routeChannel : m[2].id = r}
            IN  /\ (rResult[r] = "true") <=> (local \/ published # {})
                /\ ~(local /\ published # {})
                /\ \A m \in published :
                       m[1] = <<"ws:route", "gateway", rSession[r].gateway_id>>

\* One call was published after a local miss and returned true, and another
\* found neither path and returned false.
C22_Witness ==
    \E r, q \in Routes :
        /\ rPc[r] = "done" /\ rResult[r] = "true"
        /\ \E m \in routeChannel : m[2].id = r
        /\ rPc[q] = "done" /\ rResult[q] = "false" /\ rSession[q] # NoSession

ChatFrame == UNCHANGED <<h5Vars, gwVars, routerVars, proVars, govVars,
                         replyVars, boardVars, condVars, sgVars,
                   hbVars,
                   regVars,
                   inVars,
                   sseVars,
                   rfVars,
                   plVars,
                   cdVars,
                   slVars>>

\* The user's client opens socket s and the handshake succeeds:
\* H5ConnectionManager.connect closes the socket registered for the user and
\* registers s.  Closing a socket does not cancel what its handler awaits.
ChatConnect(s) ==
    /\ chPc[s] = "idle"
    /\ chOpen' = [t \in ChatSockets |-> IF t = s THEN TRUE
                                        ELSE IF t = chPool THEN FALSE
                                        ELSE chOpen[t]]
    /\ chPool' = s
    /\ chPc' = [chPc EXCEPT ![s] = "loop"]
    /\ UNCHANGED <<chBuf, chMsg, chSent, chWritten>>
    /\ ChatFrame

\* The user sends the next chat frame for the agent on an open socket.
ChatUserSend(s) ==
    /\ chOpen[s]
    /\ chSent < MaxChatMessages
    /\ chSent' = chSent + 1
    /\ chBuf' = [chBuf EXCEPT ![s] = Append(@, chSent')]
    /\ UNCHANGED <<chPc, chOpen, chPool, chMsg, chWritten>>
    /\ ChatFrame

\* receive_text returns the next frame, a chat message, and the handler
\* calls route_h5_to_agent, which suspends in its first query.
ChatReceive(s) ==
    /\ chPc[s] = "loop"
    /\ chOpen[s]
    /\ chBuf[s] # <<>>
    /\ chMsg' = [chMsg EXCEPT ![s] = Head(chBuf[s])]
    /\ chBuf' = [chBuf EXCEPT ![s] = Tail(@)]
    /\ chPc' = [chPc EXCEPT ![s] = "routing"]
    /\ UNCHANGED <<chOpen, chPool, chSent, chWritten>>
    /\ ChatFrame

\* route_h5_to_agent resumes, commits the session and send_to_gateway writes
\* the chat.send frame onto the gateway socket; the loop reads on.
ChatRouteWrite(s) ==
    /\ chPc[s] = "routing"
    /\ chWritten' = Append(chWritten, chMsg[s])
    /\ chMsg' = [chMsg EXCEPT ![s] = NoMessage]
    /\ chPc' = [chPc EXCEPT ![s] = "loop"]
    /\ UNCHANGED <<chOpen, chPool, chBuf, chSent>>
    /\ ChatFrame

\* route_h5_to_agent returns False (no assignment, no session, no gateway):
\* the handler sends an error frame and reads on.
ChatRouteFails(s) ==
    /\ chPc[s] = "routing"
    /\ chMsg' = [chMsg EXCEPT ![s] = NoMessage]
    /\ chPc' = [chPc EXCEPT ![s] = "loop"]
    /\ UNCHANGED <<chOpen, chPool, chBuf, chSent, chWritten>>
    /\ ChatFrame

\* receive_text raises on the closed socket; finally: disconnect(h5_user_id)
\* pops the user's entry, whatever socket it holds.
ChatLoopExit(s) ==
    /\ chPc[s] = "loop"
    /\ ~chOpen[s]
    /\ chPc' = [chPc EXCEPT ![s] = "done"]
    /\ chPool' = NoSocket
    /\ UNCHANGED <<chOpen, chBuf, chMsg, chSent, chWritten>>
    /\ ChatFrame

NextChat ==
    \/ \E s \in ChatSockets : ChatConnect(s)
    \/ \E s \in ChatSockets : ChatUserSend(s)
    \/ \E s \in ChatSockets : ChatReceive(s)
    \/ \E s \in ChatSockets : ChatRouteWrite(s)
    \/ \E s \in ChatSockets : ChatRouteFails(s)
    \/ \E s \in ChatSockets : ChatLoopExit(s)

SpecChat == Init /\ [][NextChat]_vars

\* C23: the messages a user sends to an agent are written to the gateway
\* socket in the order the user sent them: the ids on the gateway socket,
\* which number the user's messages in send order, are increasing.
C23_GatewayWritesInSendOrder ==
    \A i, j \in 1..Len(chWritten) : i < j => chWritten[i] < chWritten[j]

(***************************************************************************)
(* Heartbeats in the read loops of h5_chat_ws, gateway_relay_ws_m4 and     *)
(* board_sync_ws                                                           *)
(***************************************************************************)

\* What no heartbeat touches.
HeartbeatFrame == UNCHANGED <<h5Vars, gwVars, routerVars, proVars, govVars,
                              replyVars, boardVars, condVars, sgVars,
                              chatVars,
                   regVars,
                   inVars,
                   sseVars,
                   rfVars,
                   plVars,
                   cdVars,
                   slVars>>

\* msg.get("id") of a heartbeat frame: the id, or None when it has none.
HeartbeatIds == 0..MaxHeartbeatId

\* protocol.heartbeat_ack
heartbeat_ack(msg_id) == [type |-> "heartbeat_ack", id |-> msg_id]

\* The frame board_sync_ws builds in place.
BoardHeartbeatAck(msg_id) == [type |-> "heartbeat.ack", id |-> msg_id]

\* What the read loop of endpoint e sends for a heartbeat with this id.
HeartbeatReply(e, msg_id) ==
    IF e = "board" THEN BoardHeartbeatAck(msg_id) ELSE heartbeat_ack(msg_id)

\* The read loop of a connected socket of endpoint e receives a heartbeat
\* frame and sends the reply.
ReceiveHeartbeat(e, msg_id) ==
    /\ Len(hbIn[e]) < MaxHeartbeats
    /\ hbIn' = [hbIn EXCEPT ![e] = Append(@, msg_id)]
    /\ hbOut' = [hbOut EXCEPT ![e] = Append(@, HeartbeatReply(e, msg_id))]
    /\ HeartbeatFrame

NextHeartbeat ==
    \E e \in Endpoints, msg_id \in HeartbeatIds : ReceiveHeartbeat(e, msg_id)

SpecHeartbeat == Init /\ [][NextHeartbeat]_vars

\* C26: on every WebSocket endpoint each heartbeat received in the read loop
\* is answered with a heartbeat_ack message carrying the same id.
C26_HeartbeatAckSameId ==
    \A e \in Endpoints :
        /\ Len(hbOut[e]) = Len(hbIn[e])
        /\ \A i \in 1..Len(hbIn[e]) :
               hbOut[e][i] = [type |-> "heartbeat_ack", id |-> hbIn[e][i]]

(***************************************************************************)
(* Gateway registry: register_gateway, and the relay token check of        *)
(* process_heartbeat and of the relay handshake, for one gateway whose      *)
(* registration token is known to its registration calls                    *)
(***************************************************************************)

\* What no registry call touches.
RegistryFrame == UNCHANGED <<h5Vars, gwVars, routerVars, proVars, govVars,
                             replyVars, boardVars, condVars, sgVars,
                             chatVars, hbVars,
                   inVars,
                   sseVars,
                   rfVars,
                   plVars,
                   cdVars,
                   slVars>>

\* _hash_token: the SHA-256 hex digest of the token.
HashToken(token) == <<"sha256", token>>

\* The relay tokens a client can present: the ones generate_relay_token has
\* produced or will produce, and one it never produces.
RelayTokens == 1..(MaxRelayTokens + 1)

\* The two places that check a relay token against Gateway.token.
TokenChecks == {"heartbeat", "handshake"}

\* gateway.token != _hash_token(relay_token), negated: the presented token is
\* accepted.
TokenMatches(token) == rgHash = HashToken(token)

\* register_gateway, new registration: no row has the registration token's
\* hash and none has the name; a row with the hash of a new relay token is
\* inserted and committed, and the token is returned.  The first registration
\* is taken in one step, with no other call of the gateway in progress.
RegisterNew(c) ==
    /\ rgHash = NoGateway
    /\ \A d \in RegisterCalls : rgPc[d] = "idle"
    /\ rgNext <= MaxRelayTokens
    /\ rgHash' = HashToken(rgNext)
    /\ rgNext' = rgNext + 1
    /\ rgIssued' = Append(rgIssued, rgNext)
    /\ UNCHANGED <<rgPc, rgTok, rgAuth>>
    /\ RegistryFrame

\* register_gateway, re-registration: the select by registration_token_hash
\* returns the existing row.
ReRegisterLoad(c) ==
    /\ rgPc[c] = "idle"
    /\ rgHash # NoGateway
    /\ rgNext <= MaxRelayTokens
    /\ rgPc' = [rgPc EXCEPT ![c] = "loaded"]
    /\ UNCHANGED <<rgHash, rgNext, rgTok, rgIssued, rgAuth>>
    /\ RegistryFrame

\* relay_token = generate_relay_token(); existing.token = its hash, on the
\* call's own copy of the row.
ReRegisterGenerate(c) ==
    /\ rgPc[c] = "loaded"
    /\ rgNext <= MaxRelayTokens
    /\ rgTok' = [rgTok EXCEPT ![c] = rgNext]
    /\ rgNext' = rgNext + 1
    /\ rgPc' = [rgPc EXCEPT ![c] = "generated"]
    /\ UNCHANGED <<rgHash, rgIssued, rgAuth>>
    /\ RegistryFrame

\* session.commit(): the database applies the call's UPDATE of the row.
ReRegisterCommit(c) ==
    /\ rgPc[c] = "generated"
    /\ rgHash' = HashToken(rgTok[c])
    /\ rgPc' = [rgPc EXCEPT ![c] = "committed"]
    /\ UNCHANGED <<rgNext, rgTok, rgIssued, rgAuth>>
    /\ RegistryFrame

\* session.refresh and return existing, relay_token: the caller has its
\* token.
ReRegisterReturn(c) ==
    /\ rgPc[c] = "committed"
    /\ rgIssued' = Append(rgIssued, rgTok[c])
    /\ rgPc' = [rgPc EXCEPT ![c] = "idle"]
    /\ rgTok' = [rgTok EXCEPT ![c] = NoToken]
    /\ UNCHANGED <<rgHash, rgNext, rgAuth>>
    /\ RegistryFrame

\* process_heartbeat (kind "heartbeat") or the relay handshake (kind
\* "handshake") checks the relay token a client presents: 401, respectively
\* close(4001), unless the stored hash is the token's.
CheckRelayToken(kind, token) ==
    /\ rgHash # NoGateway
    /\ rgAuth' = [kind |-> kind, token |-> token, ok |-> TokenMatches(token)]
    /\ rgAuth' # rgAuth
    /\ UNCHANGED <<rgHash, rgNext, rgPc, rgTok, rgIssued>>
    /\ RegistryFrame

NextRegistry ==
    \/ \E c \in RegisterCalls : RegisterNew(c)
    \/ \E c \in RegisterCalls : ReRegisterLoad(c)
    \/ \E c \in RegisterCalls : ReRegisterGenerate(c)
    \/ \E c \in RegisterCalls : ReRegisterCommit(c)
    \/ \E c \in RegisterCalls : ReRegisterReturn(c)
    \/ \E kind \in TokenChecks, token \in RelayTokens :
            CheckRelayToken(kind, token)

SpecRegistry == Init /\ [][NextRegistry]_vars

\* No registration call of the gateway is in progress.
NoRegistrationInProgress == \A c \in RegisterCalls : rgPc[c] = "idle"

\* The relay token that was issued most recently: the last one returned to a
\* caller, when it is also the last one generated.
MostRecentlyIssued ==
    IF rgIssued # <<>> /\ rgIssued[Len(rgIssued)] = rgNext - 1
    THEN rgIssued[Len(rgIssued)]
    ELSE NoToken

\* C30: once the registration calls of a gateway have returned, a relay token
\* presented to process_heartbeat or to the relay handshake is accepted
\* exactly when it is the most recently issued one.
C30_OnlyNewestRelayTokenAuthenticates ==
    [][(/\ rgAuth' # rgAuth
        /\ NoRegistrationInProgress
        /\ MostRecentlyIssued # NoToken)
        => (rgAuth'.ok <=> rgAuth'.token = MostRecentlyIssued)]_vars

(***************************************************************************)
(* Client-input errors in the read loops of h5_chat_ws,                     *)
(* gateway_relay_ws_m4 and gateway_relay_ws, one authenticated connection   *)
(* of each                                                                  *)
(***************************************************************************)

\* What no read loop touches.
InputFrame == UNCHANGED <<h5Vars, gwVars, routerVars, proVars, govVars,
                          replyVars, boardVars, condVars, sgVars,
                          chatVars, hbVars, regVars,
                   sseVars,
                   rfVars,
                   plVars,
                   cdVars,
                   slVars>>

\* protocol.error_msg(reason): code defaults to 4000.
error_msg(reason) ==
    [type |-> "error", payload |-> [reason |-> reason, code |-> ERROR_CODE]]

\* The malformed frames a client can send to the loop of endpoint e: text
\* that is not JSON, a message of a handled type without its fields, and a
\* chat message whose agent_id is not a UUID (only h5_chat_ws parses one).
ClientInputErrors(e) ==
    IF e = "h5" THEN {"bad_json", "missing_fields", "invalid_uuid"}
    ELSE {"bad_json", "missing_fields"}

\* What the loop of endpoint e sends in answer to malformed frame k.
\* h5_chat_ws answers each with an error frame; gateway_relay_ws_m4 and
\* gateway_relay_ws only log.
InputReply(e, k) ==
    IF e = "h5"
    THEN CASE k = "bad_json" -> <<error_msg("invalid JSON")>>
           [] k = "missing_fields" ->
                <<error_msg("missing agent_id or content")>>
           [] k = "invalid_uuid" -> <<error_msg("invalid agent_id")>>
    ELSE <<>>

\* Whether the exception of malformed frame k leaves the loop of endpoint e:
\* gateway_relay_ws calls json.loads outside any inner try, so text that is
\* not JSON ends in the outer except and the finally block.
InputEndsLoop(e, k) == e = "gateway" /\ k = "bad_json"

\* One iteration of the read loop of endpoint e on malformed frame k.
ReceiveClientError(e, k) ==
    /\ inPc[e] = "loop"
    /\ Len(inRecv[e]) < MaxClientInputs
    /\ inRecv' = [inRecv EXCEPT ![e] = Append(@, k)]
    /\ inSent' = [inSent EXCEPT ![e] = @ \o InputReply(e, k)]
    /\ inPc' = [inPc EXCEPT ![e] = IF InputEndsLoop(e, k) THEN "done" ELSE @]
    /\ inPool' = [inPool EXCEPT ![e] = IF InputEndsLoop(e, k) THEN FALSE ELSE @]
    /\ InputFrame

\* The client goes away: WebSocketDisconnect, then the finally block
\* unregisters the connection.
InputPeerClose(e) ==
    /\ inPc[e] = "loop"
    /\ inPc' = [inPc EXCEPT ![e] = "done"]
    /\ inPool' = [inPool EXCEPT ![e] = FALSE]
    /\ UNCHANGED <<inRecv, inSent>>
    /\ InputFrame

NextInput ==
    \/ \E e \in InputEndpoints :
        \E k \in ClientInputErrors(e) : ReceiveClientError(e, k)
    \/ \E e \in InputEndpoints : InputPeerClose(e)

SpecInput == Init /\ [][NextInput]_vars

\* C31: a malformed frame received in a read loop is answered with an error
\* frame, and the connection stays in its loop and in its pool.
C31_ClientErrorAnsweredAndSurvived ==
    [][\A e \in InputEndpoints :
        Len(inRecv'[e]) = Len(inRecv[e]) + 1
            => /\ Len(inSent'[e]) = Len(inSent[e]) + 1
               /\ inSent'[e][Len(inSent'[e])].type = "error"
               /\ inPc'[e] = "loop"
               /\ inPool'[e]]_vars

(***************************************************************************)
(* Suggestion SSE stream: stream_suggestions, register_sse_queue and        *)
(* _notify_sse_subscribers over the queues of one process                   *)
(***************************************************************************)

\* What no stream and no notification touches.
SseFrame == UNCHANGED <<h5Vars, gwVars, routerVars, proVars, govVars,
                        replyVars, boardVars, condVars, sgVars,
                        chatVars, hbVars, regVars, inVars,
                   rfVars,
                   plVars,
                   cdVars,
                   slVars>>

\* str(organization_id): the text of a UUID, of the same length for every
\* organization.
OrgKey(o) == IF o = "org1" THEN <<"0", "1">> ELSE <<"0", "2">>

\* stream_id = f"{org_id}:{uuid4()}".
StreamId(o, s) == OrgKey(o) \o <<":", s>>

\* str.startswith.
StartsWith_Any(key, prefix) == TRUE

StartsWith(key, prefix) ==
    /\ Len(key) >= Len(prefix)
    /\ SubSeq(key, 1, Len(prefix)) = prefix

\* The streams in _sse_queues.
Registered == {s \in SseStreams : sseKey[s] # NoKey}

\* queue.put_nowait(data) on a queue of maxsize _SSE_QUEUE_MAX: appended, or
\* QueueFull, which is logged and leaves the queue as it is.
PutNowait(queue, data) ==
    IF Len(queue) < SSE_QUEUE_MAX THEN Append(queue, data) ELSE queue

\* stream_suggestions: the caller is a member of organization o; a queue is
\* registered under a new stream id.
SseRegister(s, o) ==
    /\ sseKey[s] = NoKey
    /\ sseKey' = [sseKey EXCEPT ![s] = StreamId(o, s)]
    /\ sseOrg' = [sseOrg EXCEPT ![s] = o]
    /\ sseQueue' = [sseQueue EXCEPT ![s] = <<>>]
    /\ UNCHANGED sseCreated
    /\ SseFrame

\* SuggestionService.create for organization o: the row is flushed, then
\* _notify_sse_subscribers offers it to every queue whose key starts with
\* the organization's id, and create returns the suggestion.
SseCreate(o) ==
    /\ Cardinality(sseCreated) < MaxSseSuggestions
    /\ LET id == Cardinality(sseCreated) + 1 IN
        /\ sseCreated' = sseCreated \cup {[id |-> id, organization_id |-> o]}
        /\ sseQueue' =
            [s \in SseStreams |->
                IF s \in Registered /\ StartsWith(sseKey[s], OrgKey(o))
                THEN PutNowait(sseQueue[s], id)
                ELSE sseQueue[s]]
    /\ UNCHANGED <<sseKey, sseOrg>>
    /\ SseFrame

\* The generator of stream s takes the next item: queue.get_nowait().
SseDeliver(s) ==
    /\ s \in Registered
    /\ sseQueue[s] # <<>>
    /\ sseQueue' = [sseQueue EXCEPT ![s] = Tail(@)]
    /\ UNCHANGED <<sseKey, sseOrg, sseCreated>>
    /\ SseFrame

\* The client of stream s is gone: the generator's finally block calls
\* unregister_sse_queue.
SseDisconnect(s) ==
    /\ s \in Registered
    /\ sseKey' = [sseKey EXCEPT ![s] = NoKey]
    /\ sseOrg' = [sseOrg EXCEPT ![s] = None]
    /\ sseQueue' = [sseQueue EXCEPT ![s] = <<>>]
    /\ UNCHANGED sseCreated
    /\ SseFrame

NextSse ==
    \/ \E s \in SseStreams, o \in SseOrgs : SseRegister(s, o)
    \/ \E o \in SseOrgs : SseCreate(o)
    \/ \E s \in SseStreams : SseDeliver(s)
    \/ \E s \in SseStreams : SseDisconnect(s)

SpecSse == Init /\ [][NextSse]_vars

\* C32: when a suggestion is created, every registered stream of the
\* suggestion's organization gets it at the end of its queue unless the queue
\* already holds SSE_QUEUE_MAX items, in which case that queue alone is left
\* as it is; the queues of the other organizations' streams do not change;
\* and the suggestion is created whatever the queues hold.
C32_CreatedSuggestionFansOutToItsOrg ==
    [][sseCreated' # sseCreated =>
        \E new \in sseCreated' \ sseCreated :
            /\ sseCreated' = sseCreated \cup {new}
            /\ \A s \in SseStreams :
                IF s \in Registered /\ sseOrg[s] = new.organization_id
                THEN IF Len(sseQueue[s]) < SSE_QUEUE_MAX
                     THEN sseQueue'[s] = Append(sseQueue[s], new.id)
                     ELSE sseQueue'[s] = sseQueue[s]
                ELSE sseQueue'[s] = sseQueue[s]]_vars

\* No queue ever holds more than SSE_QUEUE_MAX items.
C32_QueuesAreBounded ==
    \A s \in SseStreams : Len(sseQueue[s]) <= SSE_QUEUE_MAX

\* A suggestion was created while one stream of its organization was full:
\* that stream does not hold it, another stream of the organization does,
\* and a stream of the other organization is registered and does not.
C32_Witness ==
    \E new \in sseCreated, full, other, foreign \in Registered :
        /\ sseOrg[full] = new.organization_id
        /\ sseOrg[other] = new.organization_id
        /\ sseOrg[foreign] # new.organization_id
        /\ Len(sseQueue[full]) = SSE_QUEUE_MAX
        /\ \A i \in 1..Len(sseQueue[full]) : sseQueue[full][i] < new.id
        /\ \E i \in 1..Len(sseQueue[other]) : sseQueue[other][i] = new.id
        /\ \A i \in 1..Len(sseQueue[foreign]) : sseQueue[foreign][i] # new.id

(***************************************************************************)
(* Refresh token rotation: create_tokens and refresh_tokens, each request   *)
(* in its own session                                                       *)
(***************************************************************************)

\* What no token request touches.
RefreshFrame == UNCHANGED <<h5Vars, gwVars, routerVars, proVars, govVars,
                            replyVars, boardVars, condVars, sgVars,
                            chatVars, hbVars, regVars, inVars, sseVars,
                   plVars,
                   cdVars,
                   slVars>>

\* hash_refresh_token: the SHA-256 hex digest of the token.
hash_refresh_token(token) == <<"sha256", token>>

\* select(H5RefreshToken).where(token_hash == ..., revoked == False).first()
\* finds a row.
FindsUnrevoked(token) == rfRecord[hash_refresh_token(token)] = "valid"

\* create_tokens at login: a new refresh token, its hash stored.
CreateTokens ==
    /\ rfNext = 1
    /\ rfRecord' = [rfRecord EXCEPT ![hash_refresh_token(rfNext)] = "valid"]
    /\ rfNext' = rfNext + 1
    /\ UNCHANGED <<rfPc, rfTok, rfOk>>
    /\ RefreshFrame

\* refresh_tokens: the select finds the unrevoked record of the presented
\* token (not expired, its user active).
RefreshLoad(c, token) ==
    /\ rfPc[c] = "idle"
    /\ token < rfNext
    /\ rfNext <= MaxRefreshTokens
    /\ FindsUnrevoked(token)
    /\ rfPc' = [rfPc EXCEPT ![c] = "loaded"]
    /\ rfTok' = [rfTok EXCEPT ![c] = token]
    /\ UNCHANGED <<rfRecord, rfNext, rfOk>>
    /\ RefreshFrame

\* refresh_tokens: the select finds nothing; None is returned (401).
RefreshReject(c, token) ==
    /\ rfPc[c] = "idle"
    /\ token < rfNext
    /\ ~FindsUnrevoked(token)
    /\ rfPc' = [rfPc EXCEPT ![c] = "rejected"]
    /\ rfTok' = [rfTok EXCEPT ![c] = token]
    /\ UNCHANGED <<rfRecord, rfNext, rfOk>>
    /\ RefreshFrame

\* refresh_tokens: record.revoked = True and the new record, committed
\* together; the new pair is returned.
RefreshRotate(c) ==
    /\ rfPc[c] = "loaded"
    /\ rfNext <= MaxRefreshTokens
    /\ rfRecord' = [rfRecord EXCEPT ![hash_refresh_token(rfTok[c])] = "revoked",
                                    ![hash_refresh_token(rfNext)] = "valid"]
    /\ rfNext' = rfNext + 1
    /\ rfOk' = [rfOk EXCEPT ![rfTok[c]] = @ + 1]
    /\ rfPc' = [rfPc EXCEPT ![c] = "idle"]
    /\ rfTok' = [rfTok EXCEPT ![c] = NoToken]
    /\ RefreshFrame

\* The rejected request is over.
RefreshReturnNone(c) ==
    /\ rfPc[c] = "rejected"
    /\ rfPc' = [rfPc EXCEPT ![c] = "idle"]
    /\ rfTok' = [rfTok EXCEPT ![c] = NoToken]
    /\ UNCHANGED <<rfRecord, rfNext, rfOk>>
    /\ RefreshFrame

NextRefresh ==
    \/ CreateTokens
    \/ \E c \in RefreshCalls, token \in RefreshTokens : RefreshLoad(c, token)
    \/ \E c \in RefreshCalls, token \in RefreshTokens : RefreshReject(c, token)
    \/ \E c \in RefreshCalls : RefreshRotate(c)
    \/ \E c \in RefreshCalls : RefreshReturnNone(c)

SpecRefresh == Init /\ [][NextRefresh]_vars

\* C33: a refresh token is exchanged successfully at most once, whatever the
\* order and the overlap of the requests that present it.
C33_RefreshTokenExchangedAtMostOnce ==
    \A token \in RefreshTokens : rfOk[token] <= 1

(***************************************************************************)
(* Pipeline runs: PipelineEngine.start_run, advance_run and cancel_run      *)
(* behind the advance and cancel endpoints, each request with its own       *)
(* session and its own copy of the run                                      *)
(***************************************************************************)

\* What no pipeline request touches.
PipelineFrame == UNCHANGED <<h5Vars, gwVars, routerVars, proVars, govVars,
                             replyVars, boardVars, condVars, sgVars,
                             chatVars, hbVars, regVars, inVars, sseVars,
                             rfVars,
                   cdVars,
                   slVars>>

TerminalRunStatuses == {"completed", "failed", "cancelled"}

\* What _execute_stage leaves in run.status: paused by a stage that waits
\* (ai_task, approval, manual), failed when the stage raises, running when
\* the stage type does nothing to the status.
StageOutcomes == {"paused", "failed", "running"}

\* advance_run's own guard.
AdvanceAllowed(run_status) == run_status \in {"running", "paused"}

\* The guard of the advance endpoint, then that of advance_run.
AdvanceAccepted(run_status) ==
    run_status = "paused" /\ AdvanceAllowed(run_status)

\* The guard of the cancel endpoint.
CancelAccepted(run_status) == run_status \notin TerminalRunStatuses

\* start_run: the run is inserted at the first stage, which is executed.
StartRun(outcome) ==
    /\ plStatus = NoRun
    /\ plStatus' = outcome
    /\ plStage' = 1
    /\ UNCHANGED <<plPc, plOp, plSeen>>
    /\ PipelineFrame

\* get_pipeline_run_or_404 in the request's session.
PipelineLoad(c, op) ==
    /\ plPc[c] = "idle"
    /\ plStatus # NoRun
    /\ plPc' = [plPc EXCEPT ![c] = "loaded"]
    /\ plOp' = [plOp EXCEPT ![c] = op]
    /\ plSeen' = [plSeen EXCEPT ![c] = [status |-> plStatus, stage |-> plStage]]
    /\ UNCHANGED <<plStatus, plStage>>
    /\ PipelineFrame

\* The endpoint answers 409 (or advance_run raises): nothing is written.
PipelineReject(c) ==
    /\ plPc[c] = "loaded"
    /\ \/ plOp[c] = "advance" /\ ~AdvanceAccepted(plSeen[c].status)
       \/ plOp[c] = "cancel" /\ ~CancelAccepted(plSeen[c].status)
    /\ plPc' = [plPc EXCEPT ![c] = "idle"]
    /\ UNCHANGED <<plStatus, plStage, plOp, plSeen>>
    /\ PipelineFrame

\* advance_run on the request's copy: completed after the last stage,
\* otherwise the next stage is executed; commit writes the copy's status and
\* current_stage_id to the row.
AdvanceCommit(c, outcome) ==
    /\ plPc[c] = "loaded"
    /\ plOp[c] = "advance"
    /\ AdvanceAccepted(plSeen[c].status)
    /\ IF plSeen[c].stage = MaxStages
       THEN /\ plStatus' = "completed"
            /\ plStage' = plSeen[c].stage
       ELSE /\ plStatus' = outcome
            /\ plStage' = plSeen[c].stage + 1
    /\ plPc' = [plPc EXCEPT ![c] = "idle"]
    /\ UNCHANGED <<plOp, plSeen>>
    /\ PipelineFrame

\* cancel_run on the request's copy; commit writes status = cancelled.
CancelCommit(c) ==
    /\ plPc[c] = "loaded"
    /\ plOp[c] = "cancel"
    /\ CancelAccepted(plSeen[c].status)
    /\ plStatus' = "cancelled"
    /\ plPc' = [plPc EXCEPT ![c] = "idle"]
    /\ UNCHANGED <<plStage, plOp, plSeen>>
    /\ PipelineFrame

NextPipeline ==
    \/ \E outcome \in StageOutcomes : StartRun(outcome)
    \/ \E c \in PipelineCalls, op \in {"advance", "cancel"} :
            PipelineLoad(c, op)
    \/ \E c \in PipelineCalls : PipelineReject(c)
    \/ \E c \in PipelineCalls, outcome \in StageOutcomes :
            AdvanceCommit(c, outcome)
    \/ \E c \in PipelineCalls : CancelCommit(c)

SpecPipeline == Init /\ [][NextPipeline]_vars

\* C34: a run whose status is completed, failed or cancelled is never
\* changed again, whatever the overlap of the advance and cancel requests
\* on it.
C34_TerminalRunNeverChanges ==
    [][(plStatus \in TerminalRunStatuses)
        => (plStatus' = plStatus /\ plStage' = plStage)]_vars

(***************************************************************************)
(* Protocol codec: protocol.serialize and protocol.deserialize.  A JSON     *)
(* text is a sequence of tokens ("{", "}", ":", ",", a space, and string    *)
(* literals); a message object is a dict, kept as the sequence of its       *)
(* (key, value) pairs in insertion order                                    *)
(***************************************************************************)

\* What the codec does not touch.
CodecFrame == UNCHANGED <<h5Vars, gwVars, routerVars, proVars, govVars,
                          replyVars, boardVars, condVars, sgVars,
                          chatVars, hbVars, regVars, inVars, sseVars,
                          rfVars, plVars,
                   slVars>>

CodecKeys == {"type", "id"}
CodecValues == {"heartbeat", "1"}

\* The (key, value) sequences of up to MaxPairs pairs.
PairSeqs ==
    UNION {[1..n -> CodecKeys \X CodecValues] : n \in 0..MaxPairs}

\* The message objects: dicts, which have each key once.
MessageObjects ==
    {p \in PairSeqs : \A i, j \in DOMAIN p : i # j => p[i][1] # p[j][1]}

\* The pairs of a JSON object's text, with or without a space after each
\* colon and after each comma.
RenderPairs(pairs, colon_space, comma_space) ==
    LET RECURSIVE go(_)
        go(p) ==
            IF p = <<>> THEN <<>>
            ELSE <<p[1][1], ":">>
                    \o (IF colon_space THEN <<" ">> ELSE <<>>)
                    \o <<p[1][2]>>
                    \o (IF Len(p) > 1
                        THEN <<",">> \o (IF comma_space THEN <<" ">> ELSE <<>>)
                        ELSE <<>>)
                    \o go(Tail(p))
    IN go(pairs)

\* A well-formed text of a JSON object.
Render(pairs, colon_space, comma_space, brace_space) ==
    <<"{">> \o (IF brace_space THEN <<" ">> ELSE <<>>)
            \o RenderPairs(pairs, colon_space, comma_space)
            \o (IF brace_space THEN <<" ">> ELSE <<>>) \o <<"}">>

\* The well-formed WS message texts of the model: any pairs (a key may be
\* repeated), any spacing.
WellFormedTexts ==
    {Render(p, a, b, c) : p \in PairSeqs, a \in BOOLEAN, b \in BOOLEAN,
                          c \in BOOLEAN}

\* json.dumps with its default separators (", " and ": ").
serialize_Compact(message) == Render(message, FALSE, FALSE, FALSE)

serialize(message) == Render(message, TRUE, TRUE, FALSE)

\* dict[key] = value: the value of an existing key is replaced in place, a
\* new key is added at the end.
DictSet(d, key, value) ==
    IF \E i \in DOMAIN d : d[i][1] = key
    THEN [i \in DOMAIN d |-> IF d[i][1] = key THEN <<key, value>> ELSE d[i]]
    ELSE Append(d, <<key, value>>)

\* json.loads of the text of an object: whitespace between tokens is
\* skipped, and of a repeated key the last value is kept.
deserialize(raw) ==
    LET tokens == SelectSeq(raw, LAMBDA tk : tk # " ")
        count == (Len(tokens) - 1) \div 4
        RECURSIVE go(_, _)
        go(i, d) ==
            IF i > count THEN d
            ELSE go(i + 1, DictSet(d, tokens[4 * i - 2], tokens[4 * i]))
    IN go(1, <<>>)

\* Equality of two dicts: the same keys with the same values.
DictEq(a, b) == {a[i] : i \in DOMAIN a} = {b[i] : i \in DOMAIN b}

\* The text is in the form json.dumps emits.
InSerializedForm(raw) == \E message \in MessageObjects : raw = Render(message, TRUE, TRUE, FALSE)

\* serialize(deserialize(x)) for a text x.
RoundTripText ==
    /\ cdPc = "text"
    /\ cdOut' = serialize(deserialize(cdIn))
    /\ cdPc' = "text_done"
    /\ UNCHANGED cdIn
    /\ CodecFrame

\* deserialize(serialize(m)) for a message object m.
RoundTripObject ==
    /\ cdPc = "object"
    /\ cdOut' = deserialize(serialize(cdIn))
    /\ cdPc' = "object_done"
    /\ UNCHANGED cdIn
    /\ CodecFrame

\* A client sends the well-formed text raw.
CodecReceiveText(raw) ==
    /\ cdPc = "idle"
    /\ cdIn' = raw
    /\ cdPc' = "text"
    /\ UNCHANGED cdOut
    /\ CodecFrame

\* A handler builds the message object message.
CodecBuildObject(message) ==
    /\ cdPc = "idle"
    /\ cdIn' = message
    /\ cdPc' = "object"
    /\ UNCHANGED cdOut
    /\ CodecFrame

NextCodec ==
    \/ \E raw \in WellFormedTexts : CodecReceiveText(raw)
    \/ \E message \in MessageObjects : CodecBuildObject(message)
    \/ RoundTripText
    \/ RoundTripObject

SpecCodec == Init /\ [][NextCodec]_vars

LoopFrame == UNCHANGED <<h5Vars, gwVars, routerVars, proVars, govVars,
                         replyVars, boardVars, condVars, sgVars,
                         chatVars, hbVars, regVars, inVars, sseVars,
                         rfVars, plVars, cdVars>>

\* The frames a client sends: a heartbeat, or a message with a handler
\* (chat, chat_reply, task.move, task.create).
LoopFrames == {"heartbeat", "work"}

\* Whether the endpoint starts its handler with asyncio.create_task.
SpawnsHandler(e) == e = "board"

\* A heartbeat has arrived on the connection and is not yet read.
HeartbeatWaiting(e) == \E n \in 1..Len(slBuf[e]) : slBuf[e][n] = "heartbeat"

\* The client sends a frame; it waits in the socket until receive_text.
LoopClientSends(e, k) ==
    /\ slSent[e] < MaxLoopFrames
    /\ slSent' = [slSent EXCEPT ![e] = @ + 1]
    /\ slBuf' = [slBuf EXCEPT ![e] = Append(@, k)]
    /\ UNCHANGED <<slPc, slTasks, slAcks>>
    /\ LoopFrame

\* receive_text returns a heartbeat: the ack is sent.
LoopReceiveHeartbeat(e) ==
    /\ slPc[e] = "receive"
    /\ slBuf[e] # <<>>
    /\ Head(slBuf[e]) = "heartbeat"
    /\ slBuf' = [slBuf EXCEPT ![e] = Tail(@)]
    /\ slAcks' = [slAcks EXCEPT ![e] = @ + 1]
    /\ UNCHANGED <<slPc, slTasks, slSent>>
    /\ LoopFrame

\* receive_text returns a message with a handler: the loop awaits the
\* handler, or starts it as a task and goes back to receive_text.
LoopReceiveWork(e) ==
    /\ slPc[e] = "receive"
    /\ slBuf[e] # <<>>
    /\ Head(slBuf[e]) = "work"
    /\ slBuf' = [slBuf EXCEPT ![e] = Tail(@)]
    /\ IF SpawnsHandler(e)
       THEN /\ slTasks' = [slTasks EXCEPT ![e] = @ + 1]
            /\ UNCHANGED slPc
       ELSE /\ slPc' = [slPc EXCEPT ![e] = "handling"]
            /\ UNCHANGED slTasks
    /\ UNCHANGED <<slSent, slAcks>>
    /\ LoopFrame

\* The awaited handler returns; the loop is back at receive_text.
LoopHandlerReturns(e) ==
    /\ slPc[e] = "handling"
    /\ slPc' = [slPc EXCEPT ![e] = "receive"]
    /\ UNCHANGED <<slBuf, slTasks, slSent, slAcks>>
    /\ LoopFrame

\* A handler task ends.
LoopTaskEnds(e) ==
    /\ slTasks[e] > 0
    /\ slTasks' = [slTasks EXCEPT ![e] = @ - 1]
    /\ UNCHANGED <<slPc, slBuf, slSent, slAcks>>
    /\ LoopFrame

NextLoop ==
    \/ \E e \in Endpoints, k \in LoopFrames : LoopClientSends(e, k)
    \/ \E e \in Endpoints : LoopReceiveHeartbeat(e)
    \/ \E e \in Endpoints : LoopReceiveWork(e)
    \/ \E e \in Endpoints : LoopHandlerReturns(e)
    \/ \E e \in Endpoints : LoopTaskEnds(e)

SpecLoop == Init /\ [][NextLoop]_vars

\* C37: a heartbeat that has arrived on a connection never waits for a
\* message handler of that connection: whenever one is waiting, the read
\* loop is at receive_text, not inside a handler.
C37_HeartbeatNeverWaitsForHandler ==
    \A e \in Endpoints : HeartbeatWaiting(e) => slPc[e] = "receive"

(***************************************************************************)
(* Message router: route_gateway_to_h5_with_session, over two core         *)
(* instances that share the database and Redis and each have their own     *)
(* H5ConnectionManager                                                     *)
(***************************************************************************)

\* What no step of the reply path touches.
ReplyFrame == UNCHANGED <<h5Vars, gwVars, routerVars, proVars, govVars,
                          boardVars, condVars, sgVars, chatVars,
                   hbVars,
                   regVars,
                   inVars,
                   sseVars,
                   rfVars,
                   plVars,
                   cdVars,
                   slVars>>

replyCalls == <<rpPc, rpNode, rpKey, rpGateway, rpUser, rpResult>>

\* The session keys a gateway can name in a reply: the key of u1's session
\* with a1, and the key of a pair that has no session.
ReplyKeys == {BuildSessionKey("u1", "a1"), BuildSessionKey("u2", "a1")}

\* The rows the reply path selects: the active sessions with the key.
ActiveSessionsWithKey(key) ==
    {cs \in sessions : cs.session_key = key /\ cs.status = "active"}

\* is_connected on instance n, for an open socket.
IsConnectedAt(n, u) == u \in Users /\ nodeConnections[n][u] = "open"

\* h5_chat_ws on instance n, up to connect(): user u's socket is registered
\* in that instance's pool.
UserConnects(n, u) ==
    /\ nodeConnections[n][u] = "none"
    /\ nodeConnections' = [nodeConnections EXCEPT ![n][u] = "open"]
    /\ UNCHANGED <<userFrames, userRoute, replyCalls>>
    /\ ReplyFrame

\* The user's socket on n breaks; the pool still holds it.
UserSocketBreaks(n, u) ==
    /\ nodeConnections[n][u] = "open"
    /\ nodeConnections' = [nodeConnections EXCEPT ![n][u] = "broken"]
    /\ UNCHANGED <<userFrames, userRoute, replyCalls>>
    /\ ReplyFrame

\* h5_chat_ws on instance n, finally: disconnect(h5_user_id).
UserDisconnects(n, u) ==
    /\ nodeConnections[n][u] = "broken"
    /\ nodeConnections' = [nodeConnections EXCEPT ![n][u] = "none"]
    /\ UNCHANGED <<userFrames, userRoute, replyCalls>>
    /\ ReplyFrame

\* gateway_relay_ws_m4 on instance n, on the relay connection of gateway g,
\* reads a chat.reply frame with a session_key and content, and calls
\* route_gateway_to_h5_with_session with the session_key: the gateway id of
\* the connection is not among the arguments.
ReplyStart(k, n, g, key) ==
    /\ rpPc[k] = "idle"
    /\ rpPc' = [rpPc EXCEPT ![k] = "resolve"]
    /\ rpNode' = [rpNode EXCEPT ![k] = n]
    /\ rpKey' = [rpKey EXCEPT ![k] = key]
    /\ rpGateway' = [rpGateway EXCEPT ![k] = g]
    /\ UNCHANGED <<nodeConnections, userFrames, userRoute, rpUser, rpResult>>
    /\ ReplyFrame

\* Resolve session_key -> h5_user_id; without an active session, return False.
ReplyResolve(k) ==
    /\ rpPc[k] = "resolve"
    /\ IF ActiveSessionsWithKey(rpKey[k]) = {}
       THEN /\ rpPc' = [rpPc EXCEPT ![k] = "done"]
            /\ rpResult' = [rpResult EXCEPT ![k] = "false"]
            /\ UNCHANGED rpUser
       ELSE /\ \E cs \in ActiveSessionsWithKey(rpKey[k]) :
                rpUser' = [rpUser EXCEPT ![k] = cs.h5_user_id]
            /\ rpPc' = [rpPc EXCEPT ![k] = "local"]
            /\ UNCHANGED rpResult
    /\ UNCHANGED <<nodeConnections, userFrames, userRoute, rpNode, rpKey,
                   rpGateway>>
    /\ ReplyFrame

\* h5_connection_manager.send_to_user on the instance that received the
\* reply: written to the user's local socket; without one, or when the write
\* fails (the entry is then dropped), the call goes on to Redis.
ReplyLocal(k) ==
    /\ rpPc[k] = "local"
    /\ LET n == rpNode[k]
           u == rpUser[k] IN
        CASE nodeConnections[n][u] = "open" ->
                /\ userFrames' = userFrames \cup {<<k, n>>}
                /\ rpPc' = [rpPc EXCEPT ![k] = "done"]
                /\ rpResult' = [rpResult EXCEPT ![k] = "true"]
                /\ UNCHANGED nodeConnections
          [] nodeConnections[n][u] = "broken" ->
                /\ nodeConnections' = [nodeConnections EXCEPT ![n][u] = "none"]
                /\ rpPc' = [rpPc EXCEPT ![k] = "publish"]
                /\ UNCHANGED <<userFrames, rpResult>>
          [] OTHER ->
                /\ rpPc' = [rpPc EXCEPT ![k] = "publish"]
                /\ UNCHANGED <<nodeConnections, userFrames, rpResult>>
    /\ UNCHANGED <<userRoute, rpNode, rpKey, rpGateway, rpUser>>
    /\ ReplyFrame

\* redis_bridge.publish("h5_user", h5_user_id, delivery_message) succeeds:
\* the call returns True.  No code subscribes to the channel.
ReplyPublish(k) ==
    /\ rpPc[k] = "publish"
    /\ userRoute' = userRoute \cup {<<k, rpUser[k]>>}
    /\ rpPc' = [rpPc EXCEPT ![k] = "done"]
    /\ rpResult' = [rpResult EXCEPT ![k] = "true"]
    /\ UNCHANGED <<nodeConnections, userFrames, rpNode, rpKey, rpGateway,
                   rpUser>>
    /\ ReplyFrame

\* redis_bridge.publish fails (no client, or publish raises): False.
ReplyPublishFails(k) ==
    /\ rpPc[k] = "publish"
    /\ rpPc' = [rpPc EXCEPT ![k] = "done"]
    /\ rpResult' = [rpResult EXCEPT ![k] = "false"]
    /\ UNCHANGED <<nodeConnections, userFrames, userRoute, rpNode, rpKey,
                   rpGateway, rpUser>>
    /\ ReplyFrame

\* The gateways that chat sessions are bound to: the replies of NextReply
\* arrive on their relay connections.
SessionGateways == {cs.gateway_id : cs \in sessions}

NextReply ==
    \/ \E n \in Instances, u \in Users : UserConnects(n, u)
    \/ \E n \in Instances, u \in Users : UserSocketBreaks(n, u)
    \/ \E n \in Instances, u \in Users : UserDisconnects(n, u)
    \/ \E k \in Replies, n \in Instances, g \in SessionGateways, key \in ReplyKeys :
        ReplyStart(k, n, g, key)
    \/ \E k \in Replies : ReplyResolve(k)
    \/ \E k \in Replies : ReplyLocal(k)
    \/ \E k \in Replies : ReplyPublish(k)
    \/ \E k \in Replies : ReplyPublishFails(k)

\* User u1 has an active chat session with agent a1 on gateway g1.
InitSessions ==
    sessions = {[id |-> 1, h5_user_id |-> "u1", agent_id |-> "a1",
                 gateway_id |-> "g1",
                 session_key |-> BuildSessionKey("u1", "a1"),
                 status |-> "active", touched |-> TRUE]}

InitRp ==
    /\ InitH5 /\ InitGw /\ InitAgents /\ InitPro /\ InitCooldowns /\ InitGov
    /\ InitPolicy /\ InitExt
    /\ InitSessions
    /\ assignments = {<<"u1", "a1">>}
    /\ routeChannel = {}
    /\ rPc = [r \in Routes |-> "idle"]
    /\ rUser = [r \in Routes |-> None]
    /\ rAgent = [r \in Routes |-> None]
    /\ rSession = [r \in Routes |-> NoSession]
    /\ rResult = [r \in Routes |-> None]

\* Every step of a running call is taken eventually: the handler's task is
\* scheduled and its awaits return.
FairReply ==
    \A k \in Replies :
        /\ WF_vars(ReplyResolve(k))
        /\ WF_vars(ReplyLocal(k))
        /\ WF_vars(ReplyPublish(k) \/ ReplyPublishFails(k))

SpecReply == InitRp /\ [][NextReply]_vars /\ FairReply

\* The reply path with a chat.reply frame arriving on the relay connection of
\* any registered gateway.
NextRelay ==
    \/ \E n \in Instances, u \in Users : UserConnects(n, u)
    \/ \E n \in Instances, u \in Users : UserSocketBreaks(n, u)
    \/ \E n \in Instances, u \in Users : UserDisconnects(n, u)
    \/ \E k \in Replies, n \in Instances, g \in Gateways, key \in ReplyKeys :
        ReplyStart(k, n, g, key)
    \/ \E k \in Replies : ReplyResolve(k)
    \/ \E k \in Replies : ReplyLocal(k)
    \/ \E k \in Replies : ReplyPublish(k)
    \/ \E k \in Replies : ReplyPublishFails(k)

SpecRelay == InitRp /\ [][NextRelay]_vars

\* A reply has reached its user: written to a socket of the user, or
\* published on the user's route.
ReplyDelivered(k) ==
    \/ \E n \in Instances : <<k, n>> \in userFrames
    \/ \E u \in Users : <<k, u>> \in userRoute

\* C40: a reply received on gateway G's relay connection is delivered to a
\* user only if the chat session named by its session_key has
\* gateway_id = G.
C40_ReplyOnlyFromSessionGateway ==
    \A k \in Replies :
        ReplyDelivered(k)
        => \E cs \in ActiveSessionsWithKey(rpKey[k]) :
                cs.gateway_id = rpGateway[k]

\* C12: when a gateway connected to one instance sends a reply for a session
\* whose user is connected only to another instance, the reply is published
\* on the user's pub/sub route, and the instance the user is connected to
\* eventually forwards it to the user's socket (unless that socket goes away
\* first).
C12_CrossInstanceReplyForwarded ==
    \A k \in Replies, n \in Instances :
        (/\ rpPc[k] = "done"
         /\ <<k, rpUser[k]>> \in userRoute
         /\ rpNode[k] # n
         /\ IsConnectedAt(n, rpUser[k]))
        ~> (<<k, n>> \in userFrames \/ ~IsConnectedAt(n, rpUser[k]))

(***************************************************************************)
(* Board sync endpoint (board_sync_ws), its Redis listener and the         *)
(* TaskBroadcaster                                                         *)
(***************************************************************************)

\* What no step of the board sync endpoint touches.
BoardFrame == UNCHANGED <<h5Vars, gwVars, routerVars, proVars, govVars,
                          replyVars, condVars, sgVars, chatVars,
                   hbVars,
                   regVars,
                   inVars,
                   sseVars,
                   rfVars,
                   plVars,
                   cdVars,
                   slVars>>

bcVars == <<bcPc, bcClose, bcFrames, bcSub, bcQueue, bcOwed>>
taskVars == <<taskPc, taskCreatedAt>>

\* The tasks of the board that are committed.
BoardTasks == {t \in Tasks : taskPc[t] # "new"}

\* select(Task).where(board_id == ...).order_by(created_at.desc()), as a list.
OrderByCreatedAtDesc(S, created_at) ==
    CHOOSE q \in [1..Cardinality(S) -> S] :
        \A i, j \in 1..Cardinality(S) : i < j => created_at[q[i]] > created_at[q[j]]

\* fetch_board_state: the board.state message.
fetch_board_state ==
    [type |-> "board.state",
     tasks |-> OrderByCreatedAtDesc(BoardTasks, taskCreatedAt),
     task |-> NoTask]

\* The task.created message broadcast_task_created publishes.
TaskCreatedMessage(t) == [type |-> "task.created", tasks |-> <<>>, task |-> t]

\* The error frame sent before close(code).
ErrorFrame(code) == [type |-> "error", tasks |-> <<>>, task |-> code]

\* The token is missing or not valid: error frame, close(4001), return.
BoardRejectUnauthorized(c) ==
    /\ bcPc[c] = "idle"
    /\ bcPc' = [bcPc EXCEPT ![c] = "done"]
    /\ bcFrames' = [bcFrames EXCEPT ![c] = Append(@, ErrorFrame(4001))]
    /\ bcClose' = [bcClose EXCEPT ![c] = CLOSE_UNAUTH]
    /\ UNCHANGED <<bcSub, bcQueue, bcOwed, taskVars>>
    /\ BoardFrame

\* The board row does not exist: error frame, close(4004), return.
BoardRejectNotFound(c) ==
    /\ bcPc[c] = "idle"
    /\ bcPc' = [bcPc EXCEPT ![c] = "done"]
    /\ bcFrames' = [bcFrames EXCEPT ![c] = Append(@, ErrorFrame(4004))]
    /\ bcClose' = [bcClose EXCEPT ![c] = CLOSE_NOT_FOUND]
    /\ UNCHANGED <<bcSub, bcQueue, bcOwed, taskVars>>
    /\ BoardFrame

\* The token is valid and the board exists: the handler goes on to step 3.
BoardAuthenticated(c) ==
    /\ bcPc[c] = "idle"
    /\ bcPc' = [bcPc EXCEPT ![c] = "snapshot"]
    /\ UNCHANGED <<bcClose, bcFrames, bcSub, bcQueue, bcOwed, taskVars>>
    /\ BoardFrame

\* The remote end closes the socket or the transport fails.
BoardPeerClose(c) ==
    /\ bcPc[c] \in {"snapshot", "live"}
    /\ bcClose[c] = OPEN
    /\ bcClose' = [bcClose EXCEPT ![c] = PEER]
    /\ UNCHANGED <<bcPc, bcFrames, bcSub, bcQueue, bcOwed, taskVars>>
    /\ BoardFrame

\* Step 3: fetch_board_state and send it; then the Redis listener task is
\* created and the receive loop starts.
BoardSnapshot(c) ==
    /\ bcPc[c] = "snapshot"
    /\ bcClose[c] = OPEN
    /\ bcFrames' = [bcFrames EXCEPT ![c] = Append(@, fetch_board_state)]
    /\ bcPc' = [bcPc EXCEPT ![c] = "live"]
    /\ bcSub' = [bcSub EXCEPT ![c] = "starting"]
    /\ UNCHANGED <<bcClose, bcQueue, bcOwed, taskVars>>
    /\ BoardFrame

\* Step 3 raises (the query fails, or the socket is closed): the exception is
\* logged as ws_board.state_error and the handler goes on to steps 4 and 5.
BoardSnapshotFails(c) ==
    /\ bcPc[c] = "snapshot"
    /\ bcPc' = [bcPc EXCEPT ![c] = "live"]
    /\ bcSub' = [bcSub EXCEPT ![c] = "starting"]
    /\ UNCHANGED <<bcClose, bcFrames, bcQueue, bcOwed, taskVars>>
    /\ BoardFrame

\* The listener task runs: get_pubsub subscribes to board_sync:{board_id}.
BoardSubscribe(c) ==
    /\ bcSub[c] = "starting"
    /\ bcSub' = [bcSub EXCEPT ![c] = "subscribed"]
    /\ UNCHANGED <<bcPc, bcClose, bcFrames, bcQueue, bcOwed, taskVars>>
    /\ BoardFrame

\* get_pubsub returns None (no client, or subscribe raises): live updates are
\* disabled and the listener sleeps.
BoardSubscribeFails(c) ==
    /\ bcSub[c] = "starting"
    /\ bcSub' = [bcSub EXCEPT ![c] = "disabled"]
    /\ UNCHANGED <<bcPc, bcClose, bcFrames, bcQueue, bcOwed, taskVars>>
    /\ BoardFrame

\* The listener gets the next message and sends msg["data"] to the client; when
\* the send raises it leaves its loop and unsubscribes.
BoardForward(c) ==
    /\ bcSub[c] = "subscribed"
    /\ bcQueue[c] # <<>>
    /\ IF bcClose[c] = OPEN
       THEN /\ bcFrames' = [bcFrames EXCEPT ![c] = Append(@, Head(bcQueue[c]))]
            /\ bcQueue' = [bcQueue EXCEPT ![c] = Tail(@)]
            /\ UNCHANGED bcSub
       ELSE /\ bcSub' = [bcSub EXCEPT ![c] = "closed"]
            /\ bcQueue' = [bcQueue EXCEPT ![c] = <<>>]
            /\ UNCHANGED bcFrames
    /\ UNCHANGED <<bcPc, bcClose, bcOwed, taskVars>>
    /\ BoardFrame

\* The receive loop ends on a closed socket; finally cancels the listener,
\* which unsubscribes.
BoardLoopExit(c) ==
    /\ bcPc[c] = "live"
    /\ bcClose[c] # OPEN
    /\ bcPc' = [bcPc EXCEPT ![c] = "done"]
    /\ bcSub' = [bcSub EXCEPT ![c] = "closed"]
    /\ bcQueue' = [bcQueue EXCEPT ![c] = <<>>]
    /\ UNCHANGED <<bcClose, bcFrames, bcOwed, taskVars>>
    /\ BoardFrame

\* A mutation path (_handle_task_create) inserts task t and commits.
TaskCommit(t) ==
    /\ taskPc[t] = "new"
    /\ taskPc' = [taskPc EXCEPT ![t] = "committed"]
    /\ taskCreatedAt' = [taskCreatedAt EXCEPT ![t] = Cardinality(BoardTasks) + 1]
    /\ UNCHANGED bcVars
    /\ BoardFrame

\* The board client's socket is open and its snapshot has been sent.
HasSnapshot(c) ==
    /\ bcPc[c] = "live"
    /\ bcFrames[c] # <<>>
    /\ bcFrames[c][1].type = "board.state"

\* broadcast_task_created: the message is published on board_sync:{board_id};
\* Redis hands it to every subscription that exists at that moment.
TaskBroadcast(t) ==
    /\ taskPc[t] = "committed"
    /\ taskPc' = [taskPc EXCEPT ![t] = "broadcast"]
    /\ bcQueue' = [c \in BoardClients |->
            IF bcSub[c] = "subscribed"
            THEN Append(bcQueue[c], TaskCreatedMessage(t)) ELSE bcQueue[c]]
    /\ bcOwed' = [c \in BoardClients |->
            IF HasSnapshot(c)
            THEN Append(bcOwed[c], TaskCreatedMessage(t)) ELSE bcOwed[c]]
    /\ UNCHANGED <<bcPc, bcClose, bcFrames, bcSub, taskCreatedAt>>
    /\ BoardFrame

\* TaskBroadcaster._publish fails and returns False: nothing is published.
TaskBroadcastFails(t) ==
    /\ taskPc[t] = "committed"
    /\ taskPc' = [taskPc EXCEPT ![t] = "unpublished"]
    /\ UNCHANGED <<bcVars, taskCreatedAt>>
    /\ BoardFrame

NextBoard ==
    \/ \E c \in BoardClients : BoardRejectUnauthorized(c)
    \/ \E c \in BoardClients : BoardRejectNotFound(c)
    \/ \E c \in BoardClients : BoardAuthenticated(c)
    \/ \E c \in BoardClients : BoardPeerClose(c)
    \/ \E c \in BoardClients : BoardSnapshot(c)
    \/ \E c \in BoardClients : BoardSnapshotFails(c)
    \/ \E c \in BoardClients : BoardSubscribe(c)
    \/ \E c \in BoardClients : BoardSubscribeFails(c)
    \/ \E c \in BoardClients : BoardForward(c)
    \/ \E c \in BoardClients : BoardLoopExit(c)
    \/ \E t \in Tasks : TaskCommit(t)
    \/ \E t \in Tasks : TaskBroadcast(t)
    \/ \E t \in Tasks : TaskBroadcastFails(t)

SpecBoard == Init /\ [][NextBoard]_vars

\* C13: after a successful handshake on the board sync endpoint, the first
\* frame the client receives is a board.state message containing the complete
\* task list of the board ordered by creation time descending: no task.*
\* frame precedes it.
C13_FirstFrameIsBoardState ==
    \A c \in BoardClients :
        (bcClose[c] \notin {CLOSE_UNAUTH, CLOSE_NOT_FOUND} /\ bcFrames[c] # <<>>)
        => LET first == bcFrames[c][1] IN
            /\ first.type = "board.state"
            /\ \A i, j \in 1..Len(first.tasks) :
                i < j => taskCreatedAt[first.tasks[i]] > taskCreatedAt[first.tasks[j]]
            /\ \A t \in BoardTasks : \A i \in 1..Len(first.tasks) :
                taskCreatedAt[t] < taskCreatedAt[first.tasks[i]]
                => \E j \in 1..Len(first.tasks) : first.tasks[j] = t

\* C14: while a board client is connected, from the point its board.state
\* snapshot is taken until it disconnects, every message published on
\* board_sync:{board_id} is forwarded to it verbatim and in publication
\* order: what it has been sent after the snapshot, followed by what its
\* subscription still holds, is what has been published since the snapshot.
C14_PublishedIsForwardedInOrder ==
    \A c \in BoardClients :
        (HasSnapshot(c) /\ bcClose[c] = OPEN)
        => Tail(bcFrames[c]) \o bcQueue[c] = bcOwed[c]

(***************************************************************************)
(* Proactivity: EventPublisher.publish, EventBus.publish, and the rule     *)
(* engine's consumer (subscribe_all + handle_event)                        *)
(***************************************************************************)

\* What no step of the proactivity engine touches.
ProFrame == UNCHANGED <<h5Vars, gwVars, routerVars, govVars, extVars>>

evVars == <<evPc, evType, evBoard, evPayload, attempts>>
ruleVars == <<ruleEnabled, ruleCooldown, ruleLastFired>>
reVars == <<rePc, reEvent, reChannel, reRules>>

\* _org_channel and _board_channel.
OrgChannel(org) == <<ORG_CHANNEL_PREFIX, org>>
BoardChannel(org, board) == <<ORG_CHANNEL_PREFIX, org, board>>

\* The subscribe_all pattern f"{ORG_CHANNEL_PREFIX}:*".
MatchesPattern(channel) == Len(channel) >= 2 /\ channel[1] = ORG_CHANNEL_PREFIX

\* The rows of proactive_rules: both rules are triggered by cron.hourly; r1
\* has the condition of the builtin "Stale Review Detection" rule, r2 none.
RuleTrigger == [r \in Rules |-> "cron.hourly"]
RuleConditions ==
    [r \in Rules |->
        IF r = "r1"
        THEN <<[field |-> "stale_review_count", op |-> "gt", value |-> 0,
                values |-> {}]>>
        ELSE <<>>]

OPERATORS == {"eq", "ne", "gt", "lt", "gte", "lte", "in", "contains"}

\* Ordering with None on either side raises TypeError.
Orderable(actual, expected) == actual # NoValue /\ expected # NoValue

\* _evaluate_condition: the operator applied to payload.get(field), which is
\* None for a missing field, and the expected value, which is None when the
\* condition names none; an unknown operator and an operator that raises are
\* False.  `b in a` raises for a number or None; a list of numbers (the
\* condition's `values`) does not hold None.
EvaluateCondition(condition, payload) ==
    LET actual == IF condition.field \in DOMAIN payload
                  THEN payload[condition.field] ELSE NoValue
        expected == condition.value
    IN  CASE condition.op = "eq" -> actual = expected
          [] condition.op = "ne" -> actual # expected
          [] condition.op = "gt" -> Orderable(actual, expected) /\ actual > expected
          [] condition.op = "lt" -> Orderable(actual, expected) /\ actual < expected
          [] condition.op = "gte" -> Orderable(actual, expected) /\ actual >= expected
          [] condition.op = "lte" -> Orderable(actual, expected) /\ actual <= expected
          [] condition.op = "in" -> actual # NoValue /\ actual \in condition.values
          [] condition.op = "contains" -> FALSE
          [] OTHER -> FALSE

\* _evaluate_conditions: all conditions pass; an empty list passes.
EvaluateConditions(rules_list, payload) ==
    \A i \in 1..Len(rules_list) : EvaluateCondition(rules_list[i], payload)

\* _is_in_cooldown with the mutation that the gate never closes.
IsInCooldown_Never(rule, now) == FALSE

\* _is_in_cooldown: cooldown_seconds, or the configured default when it is 0.
IsInCooldown(rule, now) ==
    IF rule.last_fired_at = NeverFired
    THEN FALSE
    ELSE LET cooldown == IF rule.cooldown_seconds # 0
                         THEN rule.cooldown_seconds
                         ELSE proactivity_rule_cooldown_seconds
         IN  (now - rule.last_fired_at) < cooldown

\* The orders in which a SELECT without ORDER BY can return the rows S.
Orderings(S) ==
    {q \in [1..Cardinality(S) -> S] :
        \A i, j \in 1..Cardinality(S) : i # j => q[i] # q[j]}

\* utcnow() moves on.
Tick ==
    /\ clock < MaxTicks * ClockStep
    /\ clock' = clock + ClockStep
    /\ UNCHANGED <<evVars, busQueue, ruleVars, reVars, suggestions>>
    /\ ProFrame

\* EventPublisher.publish up to session.flush(): the AgentEvent row is in the
\* caller's transaction.
PublishFlush(e, t, b, p) ==
    /\ evPc[e] = "new"
    /\ \A d \in Events : d < e => evPc[d] # "new"
    /\ evPc' = [evPc EXCEPT ![e] = "flushed"]
    /\ evType' = [evType EXCEPT ![e] = t]
    /\ evBoard' = [evBoard EXCEPT ![e] = b]
    /\ evPayload' = [evPayload EXCEPT ![e] = p]
    /\ UNCHANGED <<clock, attempts, busQueue, ruleVars, reVars, suggestions>>
    /\ ProFrame

\* What redis delivers to the pattern subscriber for a publish on channel.
Deliver(queue, channel, e) ==
    IF MatchesPattern(channel)
    THEN Append(queue, [channel |-> channel, event |-> e])
    ELSE queue

\* EventBus.publish: redis.publish(org_channel, message) returns.
BusPublishOrg(e) ==
    /\ evPc[e] = "flushed"
    /\ attempts' = attempts \cup
            {[event |-> e, channel |-> OrgChannel(Org), ok |-> TRUE]}
    /\ busQueue' = Deliver(busQueue, OrgChannel(Org), e)
    /\ evPc' = [evPc EXCEPT ![e] =
                    IF evBoard[e] # None THEN "org_done" ELSE "published"]
    /\ UNCHANGED <<clock, evType, evBoard, evPayload, ruleVars, reVars,
                   suggestions>>
    /\ ProFrame

\* EventBus.publish: redis.publish(org_channel, message) raises; the except
\* clause of the one try block logs it and publish returns.
BusPublishOrgFails(e) ==
    /\ evPc[e] = "flushed"
    /\ attempts' = attempts \cup
            {[event |-> e, channel |-> OrgChannel(Org), ok |-> FALSE]}
    /\ evPc' = [evPc EXCEPT ![e] = "published"]
    /\ UNCHANGED <<clock, evType, evBoard, evPayload, busQueue, ruleVars,
                   reVars, suggestions>>
    /\ ProFrame

\* EventBus.publish: redis.publish(board_channel, message) returns.
BusPublishBoard(e) ==
    /\ evPc[e] = "org_done"
    /\ attempts' = attempts \cup
            {[event |-> e, channel |-> BoardChannel(Org, evBoard[e]),
              ok |-> TRUE]}
    /\ busQueue' = Deliver(busQueue, BoardChannel(Org, evBoard[e]), e)
    /\ evPc' = [evPc EXCEPT ![e] = "published"]
    /\ UNCHANGED <<clock, evType, evBoard, evPayload, ruleVars, reVars,
                   suggestions>>
    /\ ProFrame

\* EventBus.publish: redis.publish(board_channel, message) raises.
BusPublishBoardFails(e) ==
    /\ evPc[e] = "org_done"
    /\ attempts' = attempts \cup
            {[event |-> e, channel |-> BoardChannel(Org, evBoard[e]),
              ok |-> FALSE]}
    /\ evPc' = [evPc EXCEPT ![e] = "published"]
    /\ UNCHANGED <<clock, evType, evBoard, evPayload, busQueue, ruleVars,
                   reVars, suggestions>>
    /\ ProFrame

\* The caller of EventPublisher.publish commits: the event is persisted.
CallerCommit(e) ==
    /\ evPc[e] = "published"
    /\ evPc' = [evPc EXCEPT ![e] = "committed"]
    /\ UNCHANGED <<clock, evType, evBoard, evPayload, attempts, busQueue,
                   ruleVars, reVars, suggestions>>
    /\ ProFrame

\* The caller's commit raises: the AgentEvent row is rolled back.
CallerCommitFails(e) ==
    /\ evPc[e] = "published"
    /\ evPc' = [evPc EXCEPT ![e] = "rolled_back"]
    /\ UNCHANGED <<clock, evType, evBoard, evPayload, attempts, busQueue,
                   ruleVars, reVars, suggestions>>
    /\ ProFrame


\* The snapshot of a rule row that _load_matching_rules returns.
RuleSnapshot(r) ==
    [id |-> r, last_fired_at |-> ruleLastFired[r],
     cooldown_seconds |-> ruleCooldown[r], conditions |-> RuleConditions[r]]

\* _load_matching_rules: the enabled rules whose trigger_event is t.
MatchingRules(t) == {r \in Rules : ruleEnabled[r] /\ RuleTrigger[r] = t}

\* handle_event moves on to the next loaded rule, or returns to the consumer
\* loop after the last one.
NextRule ==
    /\ reRules' = Tail(reRules)
    /\ rePc' = IF Tail(reRules) = <<>> THEN "idle" ELSE "check"
    /\ reEvent' = IF Tail(reRules) = <<>> THEN NoEvent ELSE reEvent
    /\ reChannel' = IF Tail(reRules) = <<>> THEN <<>> ELSE reChannel

\* subscribe_all takes the next pmessage and handle_event loads the rules.
ReReceive ==
    /\ rePc = "idle"
    /\ busQueue # <<>>
    /\ busQueue' = Tail(busQueue)
    /\ \E order \in Orderings(MatchingRules(evType[Head(busQueue).event])) :
        /\ reRules' = [i \in DOMAIN order |-> RuleSnapshot(order[i])]
        /\ rePc' = IF order = <<>> THEN "idle" ELSE "check"
        /\ reEvent' = IF order = <<>> THEN NoEvent ELSE Head(busQueue).event
        /\ reChannel' = IF order = <<>> THEN <<>> ELSE Head(busQueue).channel
    /\ UNCHANGED <<clock, evVars, ruleVars, suggestions>>
    /\ ProFrame

\* handle_event: _load_matching_rules raises; logged, the event is dropped.
ReLoadFails ==
    /\ rePc = "idle"
    /\ busQueue # <<>>
    /\ busQueue' = Tail(busQueue)
    /\ UNCHANGED <<clock, evVars, ruleVars, reVars, suggestions>>
    /\ ProFrame

\* handle_event, one rule: the cooldown gate, then the conditions.
ReCheckRule ==
    /\ rePc = "check"
    /\ LET rule == Head(reRules) IN
        IF IsInCooldown(rule, clock)
        THEN NextRule
        ELSE IF ~EvaluateConditions(rule.conditions, evPayload[reEvent])
        THEN NextRule
        ELSE /\ rePc' = "create"
             /\ UNCHANGED <<reEvent, reChannel, reRules>>
    /\ UNCHANGED <<clock, evVars, busQueue, ruleVars, suggestions>>
    /\ ProFrame

\* _create_suggestion_for_rule: SuggestionService.create and commit.  The row
\* also records the delivery it came from and what the rule's row held when
\* the suggestion was created.
ReCreateSuggestion ==
    /\ rePc = "create"
    /\ LET rule == Head(reRules) IN
        suggestions' = suggestions \cup
            {[rule_id |-> rule.id,
              event |-> reEvent,
              channel |-> reChannel,
              board_id |-> evBoard[reEvent],
              source_event_id |-> None,
              status |-> "pending",
              created_at |-> clock,
              rule_last_fired_at |-> ruleLastFired[rule.id]]}
    /\ rePc' = "mark"
    /\ UNCHANGED <<clock, evVars, busQueue, ruleVars, reEvent, reChannel,
                   reRules>>
    /\ ProFrame

\* The per-rule handler missing: the exception leaves handle_event, the rest
\* of the loaded rules is dropped and subscribe_all logs it.
ReCreateFails_Propagates ==
    /\ rePc = "create"
    /\ reRules' = <<>>
    /\ rePc' = "idle"
    /\ reEvent' = NoEvent
    /\ reChannel' = <<>>
    /\ UNCHANGED <<clock, evVars, busQueue, ruleVars, suggestions>>
    /\ ProFrame

\* _create_suggestion_for_rule raises before its commit; handle_event logs
\* rule_engine.rule.error and goes on.
ReCreateFails ==
    /\ rePc = "create"
    /\ NextRule
    /\ UNCHANGED <<clock, evVars, busQueue, ruleVars, suggestions>>
    /\ ProFrame

\* _update_rule_fired_at: last_fired_at = utcnow(), in its own transaction.
ReMarkFired ==
    /\ rePc = "mark"
    /\ ruleLastFired' = [ruleLastFired EXCEPT ![Head(reRules).id] = clock]
    /\ NextRule
    /\ UNCHANGED <<clock, evVars, busQueue, ruleEnabled, ruleCooldown,
                   suggestions>>
    /\ ProFrame

\* _update_rule_fired_at raises; the suggestion stays, last_fired_at does not
\* change.
ReMarkFails ==
    /\ rePc = "mark"
    /\ NextRule
    /\ UNCHANGED <<clock, evVars, busQueue, ruleVars, suggestions>>
    /\ ProFrame

\* EventPublisher.publish and its caller's commit with every redis publish
\* succeeding, as the consumer sees it: one pmessage per channel.
PublishEvent(e, t, b, p) ==
    /\ evPc[e] = "new"
    /\ \A d \in Events : d < e => evPc[d] # "new"
    /\ evPc' = [evPc EXCEPT ![e] = "committed"]
    /\ evType' = [evType EXCEPT ![e] = t]
    /\ evBoard' = [evBoard EXCEPT ![e] = b]
    /\ evPayload' = [evPayload EXCEPT ![e] = p]
    /\ attempts' = attempts \cup
            {[event |-> e, channel |-> OrgChannel(Org), ok |-> TRUE]} \cup
            {[event |-> e, channel |-> BoardChannel(Org, b), ok |-> TRUE] :
                x \in {b} \ {None}}
    /\ busQueue' =
            IF b = None
            THEN Deliver(busQueue, OrgChannel(Org), e)
            ELSE Deliver(Deliver(busQueue, OrgChannel(Org), e),
                         BoardChannel(Org, b), e)
    /\ UNCHANGED <<clock, ruleVars, reVars, suggestions>>
    /\ ProFrame

NextEvents ==
    \/ \E e \in Events, t \in EventTypes, b \in Boards \cup {None},
          p \in Payloads : PublishFlush(e, t, b, p)
    \/ \E e \in Events : BusPublishOrg(e)
    \/ \E e \in Events : BusPublishOrgFails(e)
    \/ \E e \in Events : BusPublishBoard(e)
    \/ \E e \in Events : BusPublishBoardFails(e)
    \/ \E e \in Events : CallerCommit(e)
    \/ \E e \in Events : CallerCommitFails(e)

SpecEvents == Init /\ [][NextEvents]_vars

NextRules ==
    \/ Tick
    \/ \E e \in Events, t \in EventTypes, b \in Boards \cup {None},
          p \in Payloads : PublishEvent(e, t, b, p)
    \/ ReReceive
    \/ ReLoadFails
    \/ ReCheckRule
    \/ ReCreateSuggestion
    \/ ReCreateFails
    \/ ReMarkFired
    \/ ReMarkFails

InitRules ==
    InitH5 /\ InitGw /\ InitRouter /\ InitAgents /\ InitPro /\ InitCooldownsAny
        /\ InitGov /\ InitPolicy /\ InitExt

SpecRules == InitRules /\ [][NextRules]_vars

\* C3: the rule engine never creates a Suggestion for a rule whose
\* last_fired_at satisfies now - last_fired_at < cooldown_seconds at the time
\* of creation, for any sequence of events delivered to the consumer.
C3_NoSuggestionInCooldown ==
    \A s \in suggestions :
        \/ s.rule_last_fired_at = NeverFired
        \/ ~(s.created_at - s.rule_last_fired_at < ruleCooldown[s.rule_id])

\* Witness for C3: a rule with a cooldown fired on an event's org delivery,
\* did not fire on the same event's board delivery, and fired again on a later
\* event once the cooldown had passed.
C3_Witness ==
    \E s1, s2 \in suggestions :
        /\ s1.rule_id = s2.rule_id
        /\ s1.rule_last_fired_at = NeverFired
        /\ s1.board_id # None /\ s1.channel = OrgChannel(Org)
        /\ ~\E s3 \in suggestions :
                s3.rule_id = s1.rule_id /\ s3.event = s1.event /\ s3 # s1
        /\ s2.rule_last_fired_at = s1.created_at
        /\ s2.event # s1.event
        /\ ruleCooldown[s2.rule_id] > 0
        /\ s2.created_at - s2.rule_last_fired_at >= ruleCooldown[s2.rule_id]

\* C15: delivering the same SystemEvent to the rule engine more than once
\* (an event with a board is received on its org channel and on its board
\* channel) produces at most one Suggestion per matching rule.
C15_OneSuggestionPerEventAndRule ==
    \A s1, s2 \in suggestions :
        (s1.rule_id = s2.rule_id /\ s1.event = s2.event) => s1 = s2

\* C16: for every suggestion the rule engine created, the rule's last_fired_at
\* is set in the same transaction as the suggestion insert: a committed
\* suggestion whose creation call has ended has a rule whose last_fired_at is
\* set and is not older than the suggestion.
C16_SuggestionAndFiredAtCommitTogether ==
    \A s \in suggestions :
        \/ /\ rePc = "mark"
           /\ Head(reRules).id = s.rule_id
           /\ reEvent = s.event
           /\ reChannel = s.channel
        \/ /\ ruleLastFired[s.rule_id] # NeverFired
           /\ ruleLastFired[s.rule_id] >= s.created_at

\* C6: every persisted SystemEvent has a publish attempt on its org channel
\* and, when its board_id is set, a publish attempt on its board channel,
\* whether or not the other attempt failed.
C6_PublishAttemptsOnBothChannels ==
    \A e \in Events :
        evPc[e] = "committed" =>
            /\ \E a \in attempts :
                a.event = e /\ a.channel = OrgChannel(Org)
            /\ evBoard[e] # None =>
                \E a \in attempts :
                    a.event = e /\ a.channel = BoardChannel(Org, evBoard[e])

\* The conditions a rule's creator can write on the payload field: an
\* operator (one of them unknown to the engine) with a number as its value,
\* or `in` with a list of numbers.
ConditionChoices ==
    {[field |-> f, op |-> o, value |-> v, values |-> {}] :
        f \in Fields, o \in (OPERATORS \ {"in"}) \cup {"matches"},
        v \in {0, 1}}
    \cup {[field |-> f, op |-> "in", value |-> NoValue, values |-> vs] :
            f \in Fields, vs \in {{0}, {0, 1}}}

\* conditions["rules"] of a rule: up to MaxConditions conditions.
ConditionLists ==
    UNION {[1..n -> ConditionChoices] : n \in 0..MaxConditions}

\* The payloads an event can carry: the field is missing, or holds a number.
ConditionPayloads == [Fields -> {NoValue, 0, 1}]

\* handle_event evaluates the conditions of the rule against the payload.
EvaluateRule ==
    /\ ecPc = "loaded"
    /\ ecResult' = EvaluateConditions(ecConditions, ecPayload)
    /\ ecPc' = "evaluated"
    /\ UNCHANGED <<ecConditions, ecPayload>>
    /\ UNCHANGED <<h5Vars, gwVars, routerVars, proVars, govVars, replyVars,
                   boardVars, sgVars, chatVars,
                   hbVars,
                   regVars,
                   inVars,
                   sseVars,
                   rfVars,
                   plVars,
                   cdVars,
                   slVars>>

NextConditions == EvaluateRule

\* A rule with any list of conditions meets an event with any payload.
InitConditions ==
    /\ InitH5 /\ InitGw /\ InitRouter /\ InitAgents /\ InitPro
    /\ InitCooldowns /\ InitGov /\ InitPolicy /\ InitReply /\ InitBoard
    /\ InitSuggestions /\ InitChat
    /\ InitHeartbeat
    /\ InitRegistry
    /\ InitInput
    /\ InitSse
    /\ InitRefresh
    /\ InitPipeline
    /\ InitCodec
    /\ InitLoop
    /\ ecPc = "loaded"
    /\ ecConditions \in ConditionLists
    /\ ecPayload \in ConditionPayloads
    /\ ecResult = FALSE

SpecConditions == InitConditions /\ [][NextConditions]_vars

\* C18: a rule fires only if all of its conditions pass, and a condition
\* whose field is missing from the event payload evaluates to false for
\* every operator: a rule whose conditions passed has no condition on a field
\* the payload lacks.
C18_MissingFieldFailsClosed ==
    (ecPc = "evaluated" /\ ecResult)
    => \A i \in 1..Len(ecConditions) : ecPayload[ecConditions[i].field] # NoValue

\* C29: a failure while one rule is evaluated or acted on (the creation of its
\* suggestion raises, or the update of its last_fired_at raises) stays inside
\* that rule's turn: handle_event goes on with the remaining rules it loaded
\* for the event, and after the last one the consumer is back at its loop
\* with the deliveries that were waiting still in the queue.
RuleTurnFailed ==
    \/ rePc = "create" /\ rePc' # "create" /\ suggestions' = suggestions
    \/ rePc = "mark" /\ rePc' # "mark" /\ ruleLastFired' = ruleLastFired

C29_RuleFailureIsContained ==
    [][RuleTurnFailed =>
        /\ reRules' = Tail(reRules)
        /\ busQueue' = busQueue
        /\ IF Tail(reRules) # <<>>
           THEN rePc' = "check" /\ reEvent' = reEvent
           ELSE rePc' = "idle"]_vars

\* A suggestion whose rule was never marked as fired (the update failed), and
\* handle_event is at the next rule of the same event.
C29_Witness ==
    \E s \in suggestions :
        /\ ruleLastFired[s.rule_id] = NeverFired
        /\ rePc = "check"
        /\ reEvent = s.event
        /\ reChannel = s.channel
        /\ Head(reRules).id # s.rule_id

\* C28: every suggestion the rule engine creates carries source_event_id
\* equal to the id of the event that triggered it, and the event's board_id.
C28_SuggestionCarriesSourceEvent ==
    \A s \in suggestions :
        /\ s.board_id = evBoard[s.event]
        /\ s.source_event_id # None
        /\ s.source_event_id = s.event

\* C17: the event publisher publishes an event to the bus only after the
\* caller's transaction that inserted the event-log row has committed: every
\* message a subscriber has received is of an event whose row is committed.
C17_PublishedOnlyAfterCommit ==
    \A i \in 1..Len(busQueue) : evPc[busQueue[i].event] = "committed"

(***************************************************************************)
(* Suggestion lifecycle: SuggestionService.create, accept and dismiss, and *)
(* the accept and dismiss endpoints, each request in its own session       *)
(***************************************************************************)

\* What no step of the suggestion lifecycle touches.
SuggestionFrame == UNCHANGED <<h5Vars, gwVars, routerVars, proVars, govVars,
                               replyVars, boardVars, condVars, chatVars,
                   hbVars,
                   regVars,
                   inVars,
                   sseVars,
                   rfVars,
                   plVars,
                   cdVars,
                   slVars>>

rqVars == <<rqPc, rqOp, rqTarget, rqSeen, rqNow, rqResult>>

ResolveOps == {"accept", "dismiss"}

\* The status accept or dismiss writes.
ResolvedStatus(op) == IF op = "accept" THEN "accepted" ELSE "dismissed"

TerminalStatuses == {"accepted", "dismissed", "expired"}

\* The row SuggestionService.create inserts.
PendingRow == [status |-> "pending", resolved_at |-> NotResolved]

ResolvedRow_NoTimestamp(row, op, now) ==
    [row EXCEPT !.status = ResolvedStatus(op)]

\* The row after accept or dismiss: status and resolved_at are assigned
\* together and written by one UPDATE.
ResolvedRow(row, op, now) ==
    [row EXCEPT !.status = ResolvedStatus(op), !.resolved_at = now]

\* _require_pending
RequirePending(row) == row.status = "pending"

\* SuggestionService.create and its caller's commit: a new row, pending.
SuggestionCreate(g) ==
    /\ sgRow[g] = NoRow
    /\ sgRow' = [sgRow EXCEPT ![g] = PendingRow]
    /\ UNCHANGED <<sgLock, sgNow, rqVars>>
    /\ SuggestionFrame

\* The endpoint loads the suggestion into its session; a missing row is 404.
\* _load_or_raise then gets the same object from the session.
ResolveLoad(k, op, g) ==
    /\ rqPc[k] = "idle"
    /\ rqOp' = [rqOp EXCEPT ![k] = op]
    /\ rqTarget' = [rqTarget EXCEPT ![k] = g]
    /\ rqSeen' = [rqSeen EXCEPT ![k] = sgRow[g]]
    /\ IF sgRow[g] = NoRow
       THEN /\ rqPc' = [rqPc EXCEPT ![k] = "done"]
            /\ rqResult' = [rqResult EXCEPT ![k] = "not_found"]
       ELSE /\ rqPc' = [rqPc EXCEPT ![k] = "loaded"]
            /\ UNCHANGED rqResult
    /\ UNCHANGED <<sgRow, sgLock, sgNow, rqNow>>
    /\ SuggestionFrame

\* _require_pending raises 409 on the loaded row.
ResolveConflict(k) ==
    /\ rqPc[k] = "loaded"
    /\ ~RequirePending(rqSeen[k])
    /\ rqPc' = [rqPc EXCEPT ![k] = "done"]
    /\ rqResult' = [rqResult EXCEPT ![k] = "conflict"]
    /\ UNCHANGED <<sgRow, sgLock, sgNow, rqOp, rqTarget, rqSeen, rqNow>>
    /\ SuggestionFrame

\* The loaded row is pending: now = utcnow(), the fields are assigned and
\* flush sends the UPDATE of the row by primary key, which waits while
\* another request's uncommitted UPDATE holds the row.
ResolveFlush(k) ==
    /\ rqPc[k] = "loaded"
    /\ RequirePending(rqSeen[k])
    /\ sgLock[rqTarget[k]] = NoCall
    /\ sgLock' = [sgLock EXCEPT ![rqTarget[k]] = k]
    /\ sgNow' = sgNow + 1
    /\ rqNow' = [rqNow EXCEPT ![k] = sgNow']
    /\ rqPc' = [rqPc EXCEPT ![k] = "flushed"]
    /\ UNCHANGED <<sgRow, rqOp, rqTarget, rqSeen, rqResult>>
    /\ SuggestionFrame

\* session.commit() of the endpoint: the UPDATE becomes the committed row.
ResolveCommit(k) ==
    /\ rqPc[k] = "flushed"
    /\ sgRow' = [sgRow EXCEPT ![rqTarget[k]] =
                     ResolvedRow(rqSeen[k], rqOp[k], rqNow[k])]
    /\ sgLock' = [sgLock EXCEPT ![rqTarget[k]] = NoCall]
    /\ rqPc' = [rqPc EXCEPT ![k] = "done"]
    /\ rqResult' = [rqResult EXCEPT ![k] = "ok"]
    /\ UNCHANGED <<sgNow, rqOp, rqTarget, rqSeen, rqNow>>
    /\ SuggestionFrame

NextSuggestions ==
    \/ \E g \in SuggestionIds : SuggestionCreate(g)
    \/ \E k \in ResolveCalls, op \in ResolveOps, g \in SuggestionIds :
           ResolveLoad(k, op, g)
    \/ \E k \in ResolveCalls : ResolveConflict(k)
    \/ \E k \in ResolveCalls : ResolveFlush(k)
    \/ \E k \in ResolveCalls : ResolveCommit(k)

SpecSuggestions == Init /\ [][NextSuggestions]_vars

\* C19: only a pending suggestion transitions, whatever the interleaving of
\* the accept and dismiss requests on it: a request succeeds only on a
\* suggestion that is pending when it succeeds, a request that ends on a
\* terminal suggestion ends with a conflict, and no step changes the status
\* or resolved_at of a suggestion that is accepted, dismissed or expired.
C19_OnlyPendingTransitions ==
    [][/\ \A g \in SuggestionIds :
              sgRow[g].status \in TerminalStatuses => sgRow'[g] = sgRow[g]
       /\ \A k \in ResolveCalls :
              (rqResult[k] # "ok" /\ rqResult'[k] = "ok")
                  => sgRow[rqTarget'[k]].status = "pending"
       /\ \A k \in ResolveCalls :
              (rqPc[k] # "done" /\ rqPc'[k] = "done"
               /\ sgRow[rqTarget'[k]].status \in TerminalStatuses)
                  => rqResult'[k] = "conflict"]_vars

\* C20: in every reachable state the resolved_at of a suggestion is null
\* while its status is pending and non-null once its status is accepted,
\* dismissed or expired.
C20_ResolvedAtIffTerminal ==
    \A g \in SuggestionIds :
        /\ sgRow[g].status = "pending" => sgRow[g].resolved_at = NotResolved
        /\ sgRow[g].status \in TerminalStatuses
               => sgRow[g].resolved_at # NotResolved

\* A suggestion that an accept or dismiss request resolved.
C20_Witness ==
    \E g \in SuggestionIds, k \in ResolveCalls :
        /\ rqResult[k] = "ok" /\ rqTarget[k] = g
        /\ sgRow[g].status \in {"accepted", "dismissed"}
        /\ sgRow[g].resolved_at = rqNow[k]

(***************************************************************************)
(* Auto-idle heartbeat governor: compute_desired_heartbeat and             *)
(* run_governor_once on every core instance                                *)
(***************************************************************************)

\* What no step of the governor touches.
GovFrame == UNCHANGED <<h5Vars, gwVars, routerVars, proVars, extVars>>

govGhosts == <<idleRun, govLastActive, govLastPatch>>
agentRows == <<agStep, agOff, agEvery>>
policyVars == <<boardLadder, boardLeadCap, agEnabled>>

Max(a, b) == IF a >= b THEN a ELSE b
Min(a, b) == IF a <= b THEN a ELSE b

\* The length of a duration string of the form ^\d+[smhd]$, in minutes.
DurationMinutes(d) ==
    CASE d = "5m" -> 5
      [] d = "10m" -> 10
      [] d = "30m" -> 30
      [] d = "1h" -> 60
      [] d = "3h" -> 180
      [] d = "6h" -> 360

\* _is_active: has_work, or a chat within ACTIVE_WINDOW.
IsActive(chat_age, has_work) ==
    IF has_work THEN TRUE
    ELSE IF chat_age = NoChat THEN FALSE
    ELSE chat_age <= ACTIVE_WINDOW

\* next_step = max(1, int(step) + 1), with the mutation that an idle run does
\* not advance.
NextStepOf_Stay(step) == Max(1, step)

\* next_step = max(1, int(step) + 1): an idle run advances one rung.
NextStepOf(step) == Max(1, step + 1)

\* compute_desired_heartbeat, idle non-lead: the next rung, off past the end.
NonLeadHeartbeat(next_step, ladder) ==
    IF next_step <= Len(ladder)
    THEN [every |-> ladder[next_step], step |-> next_step, off |-> FALSE]
    ELSE [every |-> None, step |-> Len(ladder) + 1, off |-> TRUE]

\* compute_desired_heartbeat, idle lead, with the mutation that a lead is
\* treated like any other agent.
LeadHeartbeat_AsNonLead(next_step, ladder, lead_cap_every) ==
    NonLeadHeartbeat(next_step, ladder)

\* compute_desired_heartbeat, idle lead: the next rung, lead_cap_every past
\* the end, never off.
LeadHeartbeat(next_step, ladder, lead_cap_every) ==
    [every |-> IF next_step <= Len(ladder)
               THEN ladder[next_step] ELSE lead_cap_every,
     step |-> Min(next_step, Len(ladder)),
     off |-> FALSE]

\* compute_desired_heartbeat; an empty ladder is replaced by DEFAULT_LADDER.
compute_desired_heartbeat(is_lead, active, step, ladder_arg, lead_cap_every) ==
    LET ladder == IF ladder_arg = <<>> THEN DEFAULT_LADDER ELSE ladder_arg IN
    IF active
    THEN [every |-> DEFAULT_ACTIVE_EVERY, step |-> 0, off |-> FALSE]
    ELSE IF is_lead
    THEN LeadHeartbeat(NextStepOf(step), ladder, lead_cap_every)
    ELSE NonLeadHeartbeat(NextStepOf(step), ladder)

\* pg_try_advisory_lock with the mutation that it always answers true.
AcquireLock_Always(holder) == TRUE

\* _acquire_lock: pg_try_advisory_lock answers true when nobody holds the lock.
AcquireLock(holder) == holder = None

\* The patch condition with the mutation that every run patches every agent.
NeedsPatch_Always(desired, current_every, off) == TRUE

\* run_governor_once: a removal is patched regardless; otherwise only when
\* `every` differs or the agent was off.
NeedsPatch(desired, current_every, off) ==
    IF desired.every = None THEN TRUE
    ELSE current_every # desired.every \/ off

\* The agents run_governor_once does not skip.
Managed == {a \in GovAgents : agEnabled[a]}

\* run_governor_once: the lock is free and the run enters its try block.
GovAcquire(i) ==
    /\ gPc[i] = "idle"
    /\ AcquireLock(lockHolder)
    /\ lockHolder' = i
    /\ gPc' = [gPc EXCEPT ![i] = "locked"]
    /\ UNCHANGED <<govPatches, agentRows, policyVars, gwHeartbeat, govGhosts>>
    /\ GovFrame

\* run_governor_once: the lock is taken; auto_heartbeat.skip_locked.
GovSkipLocked(i) ==
    /\ gPc[i] = "idle"
    /\ ~AcquireLock(lockHolder)
    /\ gPc' = [gPc EXCEPT ![i] = "skipped"]
    /\ UNCHANGED <<lockHolder, govPatches, agentRows, policyVars, gwHeartbeat,
                   govGhosts>>
    /\ GovFrame

\* run_governor_once returns after skip_locked; governor_loop sleeps.
GovReturn(i) ==
    /\ gPc[i] = "skipped"
    /\ gPc' = [gPc EXCEPT ![i] = "idle"]
    /\ UNCHANGED <<lockHolder, govPatches, agentRows, policyVars, gwHeartbeat,
                   govGhosts>>
    /\ GovFrame

\* The desired heartbeat of agent a in a run that finds it active or idle.
Desired(a, active) ==
    compute_desired_heartbeat(IsBoardLead[a], active, agStep[a], boardLadder,
                              boardLeadCap)

\* run_governor_once, the loop over the agents and the commit: chat_age and
\* work (the agents with in_progress or review tasks) are the activity
\* signals the run reads.
GovCompute(i, chat_age, work) ==
    /\ gPc[i] = "locked"
    /\ LET active == [a \in GovAgents |-> IsActive(chat_age, a \in work)]
           desired == [a \in GovAgents |-> Desired(a, active[a])]
           patched == {a \in Managed :
                          NeedsPatch(desired[a], agEvery[a], agOff[a])}
       IN
        /\ govPatches' = [govPatches EXCEPT ![i] =
                {[agent |-> a, gateway |-> GovGateway[a],
                  every |-> desired[a].every] : a \in patched}]
        /\ agStep' = [a \in GovAgents |->
                IF a \in Managed THEN desired[a].step ELSE agStep[a]]
        /\ agOff' = [a \in GovAgents |->
                IF a \in Managed THEN desired[a].off ELSE agOff[a]]
        /\ agEvery' = [a \in GovAgents |->
                IF a \in Managed /\ desired[a].every # None
                THEN desired[a].every ELSE agEvery[a]]
        /\ idleRun' = [a \in GovAgents |->
                IF a \notin Managed THEN idleRun[a]
                ELSE IF active[a] THEN 0
                ELSE Min(idleRun[a] + 1, MaxIdleRun)]
        /\ govLastActive' = [a \in GovAgents |->
                IF a \notin Managed THEN govLastActive[a]
                ELSE IF active[a] THEN "active" ELSE "idle"]
        /\ govLastPatch' = [a \in GovAgents |->
                IF a \notin Managed THEN govLastPatch[a]
                ELSE IF a \in patched THEN desired[a].every ELSE NoPatch]
    /\ gPc' = [gPc EXCEPT ![i] = "dispatch"]
    /\ UNCHANGED <<lockHolder, policyVars, gwHeartbeat>>
    /\ GovFrame

\* run_governor_once: a query or the commit raises; nothing is written and
\* the finally clause releases the lock.
GovComputeFails(i) ==
    /\ gPc[i] = "locked"
    /\ gPc' = [gPc EXCEPT ![i] = "release"]
    /\ UNCHANGED <<lockHolder, govPatches, agentRows, policyVars, gwHeartbeat,
                   govGhosts>>
    /\ GovFrame

\* run_governor_once: processing one agent raises inside `for agent in
\* agents`, which has no handler of its own: the loop is left, nothing is
\* committed and nothing is dispatched.
GovAgentFails(i) ==
    /\ gPc[i] = "locked"
    /\ Managed # {}
    /\ gPc' = [gPc EXCEPT ![i] = "agent_error"]
    /\ UNCHANGED <<lockHolder, govPatches, agentRows, policyVars, gwHeartbeat,
                   govGhosts>>
    /\ GovFrame

\* run_governor_once, finally: _release_lock; governor_loop catches the
\* exception, logs auto_heartbeat.loop_error and sleeps until the next tick.
GovLoopError(i) ==
    /\ gPc[i] = "agent_error"
    /\ lockHolder' = IF lockHolder = i THEN None ELSE lockHolder
    /\ gPc' = [gPc EXCEPT ![i] = "idle"]
    /\ UNCHANGED <<govPatches, agentRows, policyVars, gwHeartbeat, govGhosts>>
    /\ GovFrame

\* The entries of a run's patches_by_gateway for gateway g.
EntriesFor(i, g) == {e \in govPatches[i] : e.gateway = g}

\* run_governor_once: _patch_gateway for one gateway succeeds.
GovDispatch(i, g) ==
    /\ gPc[i] = "dispatch"
    /\ EntriesFor(i, g) # {}
    /\ gwHeartbeat' = [a \in GovAgents |->
            IF \E e \in EntriesFor(i, g) : e.agent = a
            THEN (CHOOSE e \in EntriesFor(i, g) : e.agent = a).every
            ELSE gwHeartbeat[a]]
    /\ govPatches' = [govPatches EXCEPT ![i] = @ \ EntriesFor(i, g)]
    /\ UNCHANGED <<lockHolder, gPc, agentRows, policyVars, govGhosts>>
    /\ GovFrame

\* run_governor_once: _patch_gateway raises; auto_heartbeat.patch_failed.
GovDispatchFails(i, g) ==
    /\ gPc[i] = "dispatch"
    /\ EntriesFor(i, g) # {}
    /\ govPatches' = [govPatches EXCEPT ![i] = @ \ EntriesFor(i, g)]
    /\ UNCHANGED <<lockHolder, gPc, agentRows, policyVars, gwHeartbeat,
                   govGhosts>>
    /\ GovFrame

\* run_governor_once: every gateway has been patched; run_complete.
GovDispatchDone(i) ==
    /\ gPc[i] = "dispatch"
    /\ govPatches[i] = {}
    /\ gPc' = [gPc EXCEPT ![i] = "release"]
    /\ UNCHANGED <<lockHolder, govPatches, agentRows, policyVars, gwHeartbeat,
                   govGhosts>>
    /\ GovFrame

\* run_governor_once, finally: _release_lock.
GovRelease(i) ==
    /\ gPc[i] = "release"
    /\ lockHolder' = IF lockHolder = i THEN None ELSE lockHolder
    /\ gPc' = [gPc EXCEPT ![i] = "idle"]
    /\ UNCHANGED <<govPatches, agentRows, policyVars, gwHeartbeat, govGhosts>>
    /\ GovFrame

NextGov ==
    \/ \E i \in Instances : GovAcquire(i)
    \/ \E i \in Instances : GovSkipLocked(i)
    \/ \E i \in Instances : GovReturn(i)
    \/ \E i \in Instances, chat_age \in ChatAges,
          work \in SUBSET Managed :
            GovCompute(i, chat_age, work)
    \/ \E i \in Instances : GovComputeFails(i)
    \/ \E i \in Instances : GovAgentFails(i)
    \/ \E i \in Instances : GovLoopError(i)
    \/ \E i \in Instances, g \in Gateways : GovDispatch(i, g)
    \/ \E i \in Instances, g \in Gateways : GovDispatchFails(i, g)
    \/ \E i \in Instances : GovDispatchDone(i)
    \/ \E i \in Instances : GovRelease(i)

InitG ==
    InitH5 /\ InitGw /\ InitRouter /\ InitAgents /\ InitPro /\ InitCooldowns
        /\ InitGov /\ InitPolicyAny /\ InitExt

SpecGov == InitG /\ [][NextGov]_vars

\* The ladder compute_desired_heartbeat works with under the board's policy.
EffectiveLadder == IF boardLadder = <<>> THEN DEFAULT_LADDER ELSE boardLadder

\* A step of the model is the committing loop of some instance's run.
GovCommitted ==
    \E i \in Instances : gPc[i] = "locked" /\ gPc'[i] = "dispatch"

\* An instance is between acquiring and releasing the advisory lock.
InCritical(i) ==
    gPc[i] \in {"locked", "dispatch", "release", "agent_error"}

\* C4: the governor never emits a heartbeat patch for a lead agent whose
\* `every` exceeds the board's lead_cap_every, for any ladder, any current
\* step and any number of consecutive idle ticks.
C4_LeadPatchWithinCap ==
    \A i \in Instances : \A e \in govPatches[i] :
        (IsBoardLead[e.agent] /\ e.every # None)
        => DurationMinutes(e.every) <= DurationMinutes(boardLeadCap)

\* C5: auto_heartbeat_off = true implies that the agent is a non-lead whose
\* step is past the ladder's end; no patch and no gateway state removes a
\* lead's heartbeat, and a lead that has been idle for more runs than the
\* ladder has rungs has every = lead_cap_every with off = false.
C5_OffOnlyNonLeadPastLadder ==
    /\ \A a \in GovAgents :
        agOff[a] => ~IsBoardLead[a] /\ agStep[a] > Len(EffectiveLadder)
    /\ \A i \in Instances : \A e \in govPatches[i] :
        IsBoardLead[e.agent] => e.every # None
    /\ \A a \in GovAgents :
        IsBoardLead[a] =>
            /\ gwHeartbeat[a] # None
            /\ govLastPatch[a] # None
            /\ idleRun[a] > Len(EffectiveLadder) =>
                agEvery[a] = boardLeadCap /\ ~agOff[a]

\* Witness for C5: in one batch the non-lead has gone off past the ladder's
\* end and its gateway has removed its heartbeat, while the lead, idle for
\* just as long, has lead_cap_every on its gateway and is not off.
C5_Witness ==
    /\ agOff["dev1"] /\ agStep["dev1"] = Len(EffectiveLadder) + 1
    /\ gwHeartbeat["dev1"] = None
    /\ idleRun["lead1"] > Len(EffectiveLadder)
    /\ ~agOff["lead1"] /\ agEvery["lead1"] = boardLeadCap
    /\ gwHeartbeat["lead1"] = boardLeadCap

C27_FailedDispatchIsRetried ==
    [][\A a \in GovAgents :
        (GovCommitted /\ agEnabled[a] /\ govLastPatch[a] # NoPatch
            /\ gwHeartbeat[a] # govLastPatch[a])
        => govLastPatch'[a] # NoPatch]_vars

\* C36: when processing one agent fails in a run, the run still evaluates
\* the other managed agents, writes their rows and emits their patches: for
\* some failing agent and some activity signals, every other managed agent
\* has the step, off and every the run computes for it and a patch where one
\* is due; and the instance runs again at its next tick.
C36_AgentFailureDoesNotStallTheTick ==
    [][\A i \in Instances :
        (gPc[i] = "locked" /\ gPc'[i] = "agent_error")
        => \E bad \in Managed, chat_age \in ChatAges, work \in SUBSET Managed :
            \A a \in Managed \ {bad} :
                LET d == Desired(a, IsActive(chat_age, a \in work)) IN
                    /\ agStep'[a] = d.step
                    /\ agOff'[a] = d.off
                    /\ d.every # None => agEvery'[a] = d.every
                    /\ NeedsPatch(d, agEvery[a], agOff[a])
                        => \E e \in govPatches'[i] : e.agent = a]_vars

\* C8: with the default ladder, a non-lead that k runs in a row found idle,
\* starting at step 0, has every = ladder[k] and off = false for k = 1..5 and
\* is off with its heartbeat removed from the 6th on; a run that finds the
\* agent active resets it to step 0, every 5m, off = false.
C8_BackoffSequence ==
    \A a \in GovAgents :
        (agEnabled[a] /\ ~IsBoardLead[a] /\ EffectiveLadder = DEFAULT_LADDER)
        => /\ \A k \in 1..Len(DEFAULT_LADDER) :
                idleRun[a] = k =>
                    /\ agStep[a] = k /\ ~agOff[a]
                    /\ agEvery[a] = DEFAULT_LADDER[k]
                    /\ govLastPatch[a] = DEFAULT_LADDER[k]
           /\ idleRun[a] > Len(DEFAULT_LADDER) =>
                /\ agOff[a] /\ agStep[a] = Len(DEFAULT_LADDER) + 1
                /\ govLastPatch[a] = None
           /\ govLastActive[a] = "active" =>
                /\ agStep[a] = 0 /\ ~agOff[a]
                /\ agEvery[a] = DEFAULT_ACTIVE_EVERY

\* Witness for C8: the non-lead went off on its 6th idle run, its gateway
\* removed the heartbeat, and a later run that found it active reset it.
C8_Witness ==
    /\ agEnabled["dev1"] /\ EffectiveLadder = DEFAULT_LADDER
    /\ gwHeartbeat["dev1"] = None
    /\ govLastActive["dev1"] = "active" /\ idleRun["dev1"] = 0
    /\ agStep["dev1"] = 0 /\ ~agOff["dev1"]
    /\ govLastPatch["dev1"] = DEFAULT_ACTIVE_EVERY

\* C9: at most one run is between acquiring and releasing the advisory lock,
\* only that run changes agent rows, emits patches or patches a gateway, and a
\* run that found the lock taken returns without doing any of it.
C9_LockMutualExclusion ==
    /\ [](Cardinality({i \in Instances : InCritical(i)}) <= 1)
    /\ [][\A i \in Instances :
            /\ gPc[i] = "skipped" => gPc'[i] \in {"skipped", "idle"}
            /\ (~InCritical(i) /\ ~InCritical(i)') =>
                    govPatches'[i] = govPatches[i]
            /\ (<<agentRows, gwHeartbeat, govPatches>>'
                    # <<agentRows, gwHeartbeat, govPatches>>)
                => \E j \in Instances : lockHolder = j /\ InCritical(j)]_vars

\* Witness for C9: one run found the lock taken while the other, holding it,
\* had committed and was dispatching its patches.
C9_Witness ==
    \E i, j \in Instances :
        /\ gPc[i] = "skipped"
        /\ lockHolder = j /\ gPc[j] = "dispatch" /\ govPatches[j] # {}
        /\ govPatches[i] = {}

====
